---- MODULE Spec2Model ----
(***************************************************************************)
(* A model of the cresp workflow core: the stage registry, the dependency  *)
(* resolver (execution.py: resolve_execution_order), the stage runner      *)
(* (execution.py: run_stage, workflow.py: Workflow.run) and the output     *)
(* fingerprinting / validation layer (workflow/validation.py,              *)
(* core/validation, core/utils.py).                                        *)
(*                                                                         *)
(* Stage ids are opaque strings in the program; here they are the numbers  *)
(* 1..MaxStages.  A workflow's stage dictionary keeps insertion order, so  *)
(* the registry is a sequence of stage records in registration order.      *)
(***************************************************************************)
EXTENDS Integers, Sequences, FiniteSets, TLC

\* ------------------------------------------------------------------ bounds
\* Number of distinct stage ids.
MaxStages == 3
\* Total number of dependency declarations over all stages of a workflow.
MaxEdges == 3
\* Number of distinct file contents (0 stands for "no such file").
MaxContent == 2
\* Number of run() calls followed in the runner specification, which starts
\* from a fresh configuration or from one recorded by an earlier run.
MaxRuns == 1
\* Number of run() calls followed in the skip-check specification.
MaxSkipRuns == 2
\* Number of times the user changes output files between runs.
MaxEdits == 1

VARIABLES
    stages,                   \* Workflow.stages: registered stages, in registration order
    regError,                 \* TRUE when the last _register_stage call raised
    resolved,                 \* outcome of the last resolve_execution_order call
    validated,                \* inputs and outcome of the last validator or fingerprint call
    mode,                     \* Workflow.mode: "experiment" | "reproduction"
    policy,                   \* Workflow.reproduction_failure_mode: "stop" | "continue"
    files,                    \* file system: root -> file path -> content (0 = absent)
    dirs,                     \* file system: root -> set of directories that exist
    ledger,                   \* CrespConfig stage data: stage id -> output entries
    pc,                       \* position of Workflow.run: "idle" | "loop" | "call"
    plan,                     \* execution_plan of the current run
    planIdx,                  \* index in plan of the stage the run loop is at
    stack,                    \* run_stage activation records, innermost last
    executed_stages,          \* Workflow._executed_stages
    stage_validation_status,  \* Workflow._stage_validation_status
    run_cache,                \* Workflow._run_cache
    validation_results,       \* Workflow._validation_results
    workflow_failed,          \* local flag of Workflow.run
    results,                  \* the mapping Workflow.run returns
    calls,                    \* history: handler invocations per stage in this run
    events,                   \* history: what happened to each stage in this run
    runs,                     \* history: number of run() calls started
    edits,                    \* history: number of changes the user made to files
    runLimit                  \* number of run() calls this behaviour follows

vars == <<stages, regError, resolved, validated, mode, policy, files, dirs, ledger, pc, plan,
          planIdx, stack, executed_stages, stage_validation_status, run_cache,
          validation_results, workflow_failed, results, calls, events, runs, edits,
          runLimit>>

registryVars == <<stages, regError>>
configVars == <<mode, policy>>
fsVars == <<files, dirs>>
runVars == <<pc, plan, planIdx, stack, executed_stages, stage_validation_status,
             run_cache, validation_results, workflow_failed, results, calls, events>>
boundVars == <<runs, edits, runLimit>>

\* ------------------------------------------------------------- small helpers
StageIds == 1..MaxStages

None == "None"

\* run() / resolve_execution_order() called without a target stage
NoTarget == 0

Range(s) == {s[i] : i \in DOMAIN s}

\* Sequences over S without repetition, of length at most n.
RECURSIVE DistinctSeqs(_, _)
DistinctSeqs(S, n) ==
    IF n = 0 THEN {<<>>}
    ELSE LET shorter == DistinctSeqs(S, n - 1)
         IN shorter \cup {Append(p[1], p[2]) :
                             p \in {q \in shorter \X S : q[2] \notin Range(q[1])}}

DepLists == DistinctSeqs(StageIds, MaxEdges)

RECURSIVE TotalDeps(_)
TotalDeps(stgs) ==
    IF stgs = <<>> THEN 0 ELSE Len(stgs[1].dependencies) + TotalDeps(Tail(stgs))

\* ------------------------------------------------------------ the registry
\* dict membership / lookup on Workflow.stages
RegisteredIds(stgs) == {stgs[i].stage_id : i \in DOMAIN stgs}

StageOf(stgs, id) == (CHOOSE i \in DOMAIN stgs : stgs[i].stage_id = id)

GetStage(stgs, id) == stgs[StageOf(stgs, id)]

\* list(stages.keys())
AllStages(stgs) == [i \in DOMAIN stgs |-> stgs[i].stage_id]

\* StageFunction.__init__ with the defaults of Workflow.stage
StageFunction(id, deps, outs, skip, rmode, sim) ==
    [stage_id |-> id, dependencies |-> deps, outputs |-> outs,
     skip_if_unchanged |-> skip, reproduction_mode |-> rmode,
     similarity_threshold |-> sim]

\* ------------------------------------------------------ dependency resolver
\* The state the closure visit() works on: order, visited, visiting, and the
\* exception in flight (err = None while nothing was raised).
ResolverStart == [order |-> <<>>, visited |-> {}, visiting |-> {}, err |-> None, name |-> 0]

Raise(st, kind, id) == [st EXCEPT !.err = kind, !.name = id]

RECURSIVE visit(_, _, _)
RECURSIVE visitDeps(_, _, _, _)
RECURSIVE visitDepsFirstOnly(_, _, _, _)

\* A plausible slip: the loop is left after the first dependency.
visitDepsFirstOnly(stgs, st, deps, i) ==
    IF i > Len(deps) \/ i > 1 \/ st.err # None THEN st
    ELSE visitDepsFirstOnly(stgs, visit(stgs, st, deps[i]), deps, i + 1)

\* for dep_id in stage.dependencies: visit(dep_id)    -- an exception ends the loop
visitDeps(stgs, st, deps, i) ==
    IF i > Len(deps) \/ st.err # None THEN st
    ELSE visitDeps(stgs, visit(stgs, st, deps[i]), deps, i + 1)

\* A plausible slip: the stage is appended before its dependencies are visited.
visitPreOrder(stgs, st, stage_id) ==
    IF st.err # None THEN st
    ELSE IF stage_id \notin RegisteredIds(stgs) THEN Raise(st, "not_found", stage_id)
    ELSE IF stage_id \in st.visited THEN st
    ELSE IF stage_id \in st.visiting THEN Raise(st, "circular", stage_id)
    ELSE LET st1 == [st EXCEPT !.visiting = @ \cup {stage_id},
                               !.order = Append(@, stage_id)]
             st2 == visitDeps(stgs, st1, GetStage(stgs, stage_id).dependencies, 1)
         IN IF st2.err # None THEN st2
            ELSE [st2 EXCEPT !.visiting = @ \ {stage_id},
                             !.visited = @ \cup {stage_id}]

\* A plausible slip: a stage on the active recursion path counts as done.
visitNoCycleCheck(stgs, st, stage_id) ==
    IF st.err # None THEN st
    ELSE IF stage_id \notin RegisteredIds(stgs) THEN Raise(st, "not_found", stage_id)
    ELSE IF stage_id \in st.visited \cup st.visiting THEN st
    ELSE LET st1 == [st EXCEPT !.visiting = @ \cup {stage_id}]
             st2 == visitDeps(stgs, st1, GetStage(stgs, stage_id).dependencies, 1)
         IN IF st2.err # None THEN st2
            ELSE [st2 EXCEPT !.visiting = @ \ {stage_id},
                             !.visited = @ \cup {stage_id},
                             !.order = Append(@, stage_id)]

\* A plausible slip: an id that is not registered is passed over.
visitUnknownAsLeaf(stgs, st, stage_id) ==
    IF st.err # None THEN st
    ELSE IF stage_id \notin RegisteredIds(stgs) THEN st
    ELSE IF stage_id \in st.visited THEN st
    ELSE IF stage_id \in st.visiting THEN Raise(st, "circular", stage_id)
    ELSE LET st1 == [st EXCEPT !.visiting = @ \cup {stage_id}]
             st2 == visitDeps(stgs, st1, GetStage(stgs, stage_id).dependencies, 1)
         IN IF st2.err # None THEN st2
            ELSE [st2 EXCEPT !.visiting = @ \ {stage_id},
                             !.visited = @ \cup {stage_id},
                             !.order = Append(@, stage_id)]

\* A plausible slip: a finished stage is not remembered.
visitNoMemo(stgs, st, stage_id) ==
    IF st.err # None THEN st
    ELSE IF stage_id \notin RegisteredIds(stgs) THEN Raise(st, "not_found", stage_id)
    ELSE IF stage_id \in st.visiting THEN Raise(st, "circular", stage_id)
    ELSE LET st1 == [st EXCEPT !.visiting = @ \cup {stage_id}]
             st2 == visitDeps(stgs, st1, GetStage(stgs, stage_id).dependencies, 1)
         IN IF st2.err # None THEN st2
            ELSE [st2 EXCEPT !.visiting = @ \ {stage_id},
                             !.visited = @ \cup {stage_id},
                             !.order = Append(@, stage_id)]

visit(stgs, st, stage_id) ==
    IF st.err # None THEN st
    ELSE IF stage_id \notin RegisteredIds(stgs) THEN Raise(st, "not_found", stage_id)
    ELSE IF stage_id \in st.visited THEN st
    ELSE IF stage_id \in st.visiting THEN Raise(st, "circular", stage_id)
    ELSE LET st1 == [st EXCEPT !.visiting = @ \cup {stage_id}]
             st2 == visitDeps(stgs, st1, GetStage(stgs, stage_id).dependencies, 1)
         IN IF st2.err # None THEN st2
            ELSE [st2 EXCEPT !.visiting = @ \ {stage_id},
                             !.visited = @ \cup {stage_id},
                             !.order = Append(@, stage_id)]

\* for stage_id in all_stages: if stage_id not in visited: visit(stage_id)
RECURSIVE visitAll(_, _, _, _)
visitAll(stgs, st, all, i) ==
    IF i > Len(all) \/ st.err # None THEN st
    ELSE IF all[i] \in st.visited THEN visitAll(stgs, st, all, i + 1)
    ELSE visitAll(stgs, visit(stgs, st, all[i]), all, i + 1)

\* The outcome of a call: [kind |-> "ok", order |-> ...] when it returns, and
\* [kind |-> the ValueError raised, name |-> the id in its message] otherwise.
Outcome(st) ==
    IF st.err # None THEN [kind |-> st.err, order |-> <<>>, name |-> st.name]
    ELSE [kind |-> "ok", order |-> st.order, name |-> 0]

\* A plausible slip: the target is checked but every stage is visited.
resolve_execution_order_all(stgs, target_stage) ==
    IF target_stage # NoTarget /\ target_stage \notin RegisteredIds(stgs)
    THEN [kind |-> "target_unregistered", order |-> <<>>, name |-> target_stage]
    ELSE Outcome(visitAll(stgs, ResolverStart, AllStages(stgs), 1))

resolve_execution_order(stgs, target_stage) ==
    IF target_stage # NoTarget
    THEN IF target_stage \notin RegisteredIds(stgs)
         THEN [kind |-> "target_unregistered", order |-> <<>>, name |-> target_stage]
         ELSE Outcome(visit(stgs, ResolverStart, target_stage))
    ELSE Outcome(visitAll(stgs, ResolverStart, AllStages(stgs), 1))

NoCall == [kind |-> "none", order |-> <<>>, name |-> 0, target |-> NoTarget]

\* No validate_artifact call has been made yet.
NoValidation ==
    [kind |-> "none", path |-> <<>>, content |-> 0, reference_hash |-> <<>>,
     validation_type |-> "strict", tolerance_absolute |-> -1, tolerance_relative |-> -1,
     similarity_threshold |-> -1, ok |-> FALSE, msg |-> ""]


\* ------------------------------------------------------- paths and scopes
\* A relative path is the sequence of its components; a separator occurs in
\* the path string exactly when there is more than one component.  The file
\* system holds two files at top level or one level down ("f", "o/f") and a
\* directory "d" with two files under it.  An absolute path starts with the
\* component "/"; the one absolute file is "/f", outside every root.
PathF == <<"f">>
PathOF == <<"o", "f">>
PathD == <<"d">>
PathDX == <<"d", "x">>
PathDY == <<"d", "y">>
PathAbs == <<"/", "f">>
PathDAB == <<"d", "a", "b">>
PathDAhB == <<"d", "a-b">>

FilePaths == {PathF, PathOF, PathDX, PathDY, PathAbs, PathDAB, PathDAhB}
DirPaths == {PathD}
DeclPaths == {PathF, PathOF, PathD}

\* "/" not in path_str and "\\" not in path_str
HasSeparator(path) == Len(path) > 1

\* Path.is_relative_to / startswith(declared + os.sep), on relative paths
IsUnder(path, dir) ==
    /\ Len(path) > Len(dir)
    /\ SubSeq(path, 1, Len(dir)) = dir

\* shared_data_dir and the two mode-specific output directories
\* (workflow.py: "shared", "experiment", "reproduction"): sibling directories.
\* FsRoot is the file system's root, where absolute paths lead.
FsRoot == "/"

Roots == {"shared", "experiment", "reproduction", FsRoot}

\* Path.is_absolute()
IsAbsolute(path) == path[1] = "/"

\* base / path (pathlib): an absolute right operand replaces the base
At(root, path) == IF IsAbsolute(path) THEN FsRoot ELSE root

ActiveRoot(md) == IF md = "experiment" THEN "experiment" ELSE "reproduction"

\* shared_data_dir / path_str if is_shared else active_output_dir / path_str
ResolveRoot(is_shared, active) == IF is_shared THEN "shared" ELSE active

IsFile(fls, root, path) == path \in FilePaths /\ fls[At(root, path)][path] # 0

IsDir(drs, root, path) == path \in drs[At(root, path)]

Exists(fls, drs, root, path) == IsFile(fls, root, path) \/ IsDir(drs, root, path)

\* resolved_path.rglob("*") restricted to files
FilesUnder(fls, root, dir) == {q \in FilePaths : IsUnder(q, dir) /\ fls[At(root, dir)][q] # 0}

\* ----------------------------------------------------------- declarations
\* An output declaration is a plain path string (form "str") or a dict with a
\* "path" and optional "shared", "hash_method" and "reproduction" settings.
\* Optional keys that are absent hold None / NoThreshold.
NoThreshold == -1

Tiers == {"strict", "standard", "tolerant", "ignore"}
HashMethods == {"sha256", "md5"}

StrDecl(path) ==
    [form |-> "str", path |-> path, shared |-> None, hash_method |-> None,
     mode |-> None, sim |-> NoThreshold]

DictDecl(path, shared, method, rmode, sim) ==
    [form |-> "dict", path |-> path, shared |-> shared, hash_method |-> method,
     mode |-> rmode, sim |-> sim]

\* bool(x) of an optional boolean held as "True" / "False" / None
Truthy(b) == b = "True"

ToFlag(b) == IF b THEN "True" ELSE "False"

\* check_outputs_unchanged: scope of a declaration
SkipCheckScope(decl) ==
    IF decl.form = "str" THEN FALSE ELSE Truthy(decl.shared)

\* update_output_hashes, validate_outputs, get_output_scope_and_path:
\* scope of a declaration (explicit flag, else the separator heuristic)
RecordScope(decl) ==
    IF decl.form = "str" THEN ~HasSeparator(decl.path)
    ELSE IF decl.shared # None THEN Truthy(decl.shared)
    ELSE ~HasSeparator(decl.path)

\* ----------------------------------------------------------- fingerprints
\* calculate_file_hash: the digest of a file's content under a method, as its
\* string of digits.  Distinct contents have distinct digests; the two methods
\* give unrelated digests of different lengths (sha256 twice as long as md5).
calculate_file_hash(content, method) ==
    IF method = "md5"
    THEN <<1 - (content % 2), 1 - ((content \div 2) % 2)>>
    ELSE <<content % 2, (content \div 2) % 2, (content \div 4) % 2, 1>>

\* calculate_artifact_hash(path) on an existing file, default method
CurrentHash(fls, root, path) == calculate_file_hash(fls[At(root, path)][path], "sha256")

\* ---------------------------------------------------------- tiered validator
\* Number of positions below min(len) at which the two digests agree.
MatchingChars(cur, ref) ==
    LET len_min == IF Len(cur) < Len(ref) THEN Len(cur) ELSE Len(ref)
    IN Cardinality({i \in 1..len_min : cur[i] = ref[i]})

\* A plausible slip: the similarity is taken relative to the current digest.
validate_tolerant_by_current(cur, reference_hash, similarity_threshold) ==
    IF similarity_threshold # NoThreshold
    THEN IF reference_hash = <<>>
         THEN [ok |-> FALSE, msg |-> "tolerant: reference hash is empty"]
         ELSE IF MatchingChars(cur, reference_hash) * 100 >= similarity_threshold * Len(cur)
              THEN [ok |-> TRUE, msg |-> "tolerant: similarity >= threshold"]
              ELSE [ok |-> FALSE, msg |-> "tolerant: similarity < threshold"]
    ELSE [ok |-> FALSE, msg |-> "tolerant: similarity threshold not provided"]

\* validate_tolerant; thresholds and similarity are in percent
validate_tolerant(cur, reference_hash, similarity_threshold) ==
    IF similarity_threshold # NoThreshold
    THEN IF reference_hash = <<>>
         THEN [ok |-> FALSE, msg |-> "tolerant: reference hash is empty"]
         ELSE IF MatchingChars(cur, reference_hash) * 100
                    >= similarity_threshold * Len(reference_hash)
              THEN [ok |-> TRUE, msg |-> "tolerant: similarity >= threshold"]
              ELSE [ok |-> FALSE, msg |-> "tolerant: similarity < threshold"]
    ELSE [ok |-> FALSE, msg |-> "tolerant: similarity threshold not provided"]

\* Tolerances are held in thousandths; NoTolerance stands for None.
NoTolerance == -1

\* A file content that cannot be read: calculate_file_hash raises on it.
Unreadable == -1

\* calculate_artifact_hash(artifact_path) raises
HashRaises(fls, root, path) == fls[At(root, path)][path] = Unreadable

\* The paths with a suffix validate_standard knows (.csv, .json, .npy, .npz).
HasDataSuffix(path) == path = PathF

\* compare_numeric_values, on values in thousandths
compare_numeric_values(value1, value2, tolerance_absolute, tolerance_relative) ==
    LET diff == IF value1 >= value2 THEN value1 - value2 ELSE value2 - value1
        abs1 == IF value1 >= 0 THEN value1 ELSE 0 - value1
        abs2 == IF value2 >= 0 THEN value2 ELSE 0 - value2
        largest == IF abs1 >= abs2 THEN abs1 ELSE abs2
    IN IF tolerance_absolute # NoTolerance /\ diff <= tolerance_absolute THEN TRUE
       ELSE IF tolerance_relative # NoTolerance /\ value1 = 0 /\ value2 = 0 THEN TRUE
       ELSE IF tolerance_relative # NoTolerance /\ diff * 1000 <= tolerance_relative * largest
       THEN TRUE
       ELSE IF tolerance_absolute = NoTolerance /\ tolerance_relative = NoTolerance
       THEN value1 = value2
       ELSE FALSE

\* validate_standard on a file: the specialised comparison is only attempted
\* in name, every branch ends in the hash comparison.
validate_standard(path, cur, reference_hash, tolerance_absolute, tolerance_relative) ==
    LET attempt_specialized ==
            /\ HasDataSuffix(path)
            /\ (tolerance_absolute # NoTolerance \/ tolerance_relative # NoTolerance)
    IN IF cur = reference_hash
       THEN [ok |-> TRUE, msg |-> "standard: exact hash match"]
       ELSE IF attempt_specialized
       THEN [ok |-> FALSE, msg |-> "standard: specialized comparison did not succeed and hash mismatch"]
       ELSE [ok |-> FALSE, msg |-> "standard: hash mismatch"]

\* A plausible slip: the tier is looked at before the fast path.
validate_artifact_tier_first(fls, drs, root, path, reference_hash, validation_type, tolerance_absolute, tolerance_relative, similarity_threshold) ==
    IF ~Exists(fls, drs, root, path)
    THEN [ok |-> FALSE, msg |-> "artifact does not exist"]
    ELSE IF validation_type \notin {"strict", "standard", "tolerant"}
    THEN [ok |-> FALSE, msg |-> "unknown validation type"]
    ELSE IF HashRaises(fls, root, path)
    THEN [ok |-> FALSE, msg |-> "validation error during mode specific check"]
    ELSE IF CurrentHash(fls, root, path) = reference_hash
    THEN [ok |-> TRUE, msg |-> "exact hash match"]
    ELSE IF validation_type = "tolerant"
    THEN validate_tolerant(CurrentHash(fls, root, path), reference_hash, similarity_threshold)
    ELSE [ok |-> FALSE, msg |-> "strict: hash mismatch"]

\* A plausible slip: the similarity tier is consulted under every tier.
validate_artifact_always_similar(fls, drs, root, path, reference_hash, validation_type, tolerance_absolute, tolerance_relative, similarity_threshold) ==
    IF ~Exists(fls, drs, root, path)
    THEN [ok |-> FALSE, msg |-> "artifact does not exist"]
    ELSE IF HashRaises(fls, root, path)
    THEN [ok |-> FALSE, msg |-> "strict: could not calculate hash - cause"]
    ELSE IF CurrentHash(fls, root, path) = reference_hash
    THEN [ok |-> TRUE, msg |-> "exact hash match"]
    ELSE validate_tolerant(CurrentHash(fls, root, path), reference_hash, similarity_threshold)

\* A plausible slip: the similarity tier is never consulted.
validate_artifact_hash_only(fls, drs, root, path, reference_hash, validation_type, tolerance_absolute, tolerance_relative, similarity_threshold) ==
    IF ~Exists(fls, drs, root, path)
    THEN [ok |-> FALSE, msg |-> "artifact does not exist"]
    ELSE IF HashRaises(fls, root, path)
    THEN [ok |-> FALSE, msg |-> "strict: could not calculate hash - cause"]
    ELSE IF CurrentHash(fls, root, path) = reference_hash
    THEN [ok |-> TRUE, msg |-> "exact hash match"]
    ELSE [ok |-> FALSE, msg |-> "strict: hash mismatch"]

\* A plausible slip: a failure to compute the fingerprint counts as a match.
validate_artifact_unreadable_passes(fls, drs, root, path, reference_hash, validation_type, tolerance_absolute, tolerance_relative, similarity_threshold) ==
    IF ~Exists(fls, drs, root, path)
    THEN [ok |-> FALSE, msg |-> "artifact does not exist"]
    ELSE IF HashRaises(fls, root, path)
    THEN [ok |-> TRUE, msg |-> "exact hash match"]
    ELSE IF CurrentHash(fls, root, path) = reference_hash
    THEN [ok |-> TRUE, msg |-> "exact hash match"]
    ELSE IF validation_type = "tolerant"
    THEN validate_tolerant(CurrentHash(fls, root, path), reference_hash, similarity_threshold)
    ELSE [ok |-> FALSE, msg |-> "strict: hash mismatch"]

\* validate_artifact: existence, the initial hash check, then the tier.  When
\* the hash cannot be calculated, strict fails naming the cause and the other
\* tiers go to their own check, whose exception is caught.
validate_artifact(fls, drs, root, path, reference_hash, validation_type, tolerance_absolute, tolerance_relative, similarity_threshold) ==
    IF ~Exists(fls, drs, root, path)
    THEN [ok |-> FALSE, msg |-> "artifact does not exist"]
    ELSE IF HashRaises(fls, root, path)
    THEN IF validation_type = "strict"
         THEN [ok |-> FALSE, msg |-> "strict: could not calculate hash - cause"]
         ELSE IF validation_type = "standard"
         THEN [ok |-> FALSE, msg |-> "validation error during mode specific check"]
         ELSE IF validation_type = "tolerant"
         THEN IF similarity_threshold # NoThreshold
              THEN [ok |-> FALSE, msg |-> "validation error during mode specific check"]
              ELSE validate_tolerant(<<>>, reference_hash, similarity_threshold)
         ELSE [ok |-> FALSE, msg |-> "unknown validation type"]
    ELSE LET current_hash == CurrentHash(fls, root, path)
         IN IF current_hash = reference_hash
            THEN [ok |-> TRUE, msg |-> "exact hash match"]
            ELSE IF validation_type = "strict"
            THEN [ok |-> FALSE, msg |-> "strict: hash mismatch"]
            ELSE IF validation_type = "standard"
            THEN validate_standard(path, current_hash, reference_hash,
                                   tolerance_absolute, tolerance_relative)
            ELSE IF validation_type = "tolerant"
            THEN validate_tolerant(current_hash, reference_hash, similarity_threshold)
            ELSE [ok |-> FALSE, msg |-> "unknown validation type"]


\* ------------------------------------------------------------- the ledger
\* CrespConfig keeps, per stage id, the list of output entries; an entry is
\* looked up by its "path", so the list is held as a function from path to
\* entry.  hash = <<>> stands for an entry without a "hash" key.
LedgerEntry(hash, method, shared, rmode, sim) ==
    [hash |-> hash, hash_method |-> method, shared |-> shared,
     mode |-> rmode, sim |-> sim]

\* A fixed enumeration order for sets of paths (dict / directory iteration).
PathSeq == <<PathF, PathOF, PathD, PathDX, PathDY, PathAbs, PathDAB, PathDAhB>>

SortedPaths(S) == SelectSeq(PathSeq, LAMBDA q : q \in S)

\* StageFunction.to_stage_config: the artifact written for one declaration
ArtifactOf(st, decl) ==
    LedgerEntry(<<>>,
                decl.hash_method,
                IF decl.form = "str"
                THEN (IF HasSeparator(decl.path) THEN None ELSE "True")
                ELSE decl.shared,
                IF decl.mode # None THEN decl.mode ELSE st.reproduction_mode,
                IF decl.sim # NoThreshold THEN decl.sim ELSE st.similarity_threshold)

\* StageFunction.to_stage_config: "outputs" of the stage configuration
RECURSIVE ToStageConfig(_, _, _)
ToStageConfig(st, i, acc) ==
    IF i > Len(st.outputs) THEN acc
    ELSE LET decl == st.outputs[i]
             rest == [k \in DOMAIN acc \ {decl.path} |-> acc[k]]
         IN ToStageConfig(st, i + 1,
                [k \in DOMAIN rest \cup {decl.path} |->
                    IF k = decl.path THEN ArtifactOf(st, decl) ELSE rest[k]])

EmptyOutputs == [k \in {} |-> LedgerEntry(<<>>, None, None, None, NoThreshold)]

\* config.add_stage(stage_config_data) for a stage not yet in the configuration
add_stage(cfg, st) ==
    [s \in DOMAIN cfg \cup {st.stage_id} |->
        IF s = st.stage_id THEN ToStageConfig(st, 1, EmptyOutputs) ELSE cfg[s]]

\* config.update_artifact(stage_id, relative_key, entry): write or overwrite
update_artifact(cfg, stage_id, key, entry) ==
    LET old == IF stage_id \in DOMAIN cfg THEN cfg[stage_id] ELSE EmptyOutputs
        new == [k \in DOMAIN old \cup {key} |-> IF k = key THEN entry ELSE old[k]]
    IN [s \in DOMAIN cfg \cup {stage_id} |-> IF s = stage_id THEN new ELSE cfg[s]]

\* A plausible slip: the declaration's tier is looked up before the file's.
FinalModeDeclFirst(file_cfg, decl, st) ==
    IF decl.mode # None THEN decl.mode
    ELSE IF file_cfg.mode # None THEN file_cfg.mode
    ELSE st.reproduction_mode

\* Effective settings of a ledger file: file level, then declaration, then stage.
FinalMode(file_cfg, decl, st) ==
    IF file_cfg.mode # None THEN file_cfg.mode
    ELSE IF decl.mode # None THEN decl.mode
    ELSE st.reproduction_mode

FinalSim(file_cfg, decl, st) ==
    IF file_cfg.sim # NoThreshold THEN file_cfg.sim
    ELSE IF decl.sim # NoThreshold THEN decl.sim
    ELSE st.similarity_threshold

\* ------------------------------------------------- check_outputs_unchanged
\* Ledger entries a declaration is compared with: the set of keys, or the
\* verdict "return_false" when the code returns False on the way.
SkipCheckFiles(decl, expected_files_config, fls, drs, active) ==
    LET is_shared == SkipCheckScope(decl)
        root == ResolveRoot(is_shared, active)
        path == decl.path
    IN IF IsAbsolute(path)
       THEN [verdict |-> "return_false", keys |-> {}]
       ELSE IF IsFile(fls, root, path)
       THEN IF path \in DOMAIN expected_files_config
            THEN IF Truthy(expected_files_config[path].shared) = is_shared
                 THEN [verdict |-> "ok", keys |-> {path}]
                 ELSE [verdict |-> "return_false", keys |-> {}]
            ELSE [verdict |-> "return_false", keys |-> {}]
       ELSE IF IsDir(drs, root, path)
       THEN LET within == {k \in DOMAIN expected_files_config :
                             /\ ResolveRoot(Truthy(expected_files_config[k].shared), active) = root
                             /\ IsUnder(k, path)}
            IN IF \E k \in within :
                     \/ ~Exists(fls, drs, root, k)
                     \/ Truthy(expected_files_config[k].shared) # is_shared
               THEN [verdict |-> "return_false", keys |-> {}]
               ELSE IF within = {}
               THEN [verdict |-> "return_false", keys |-> {}]
               ELSE [verdict |-> "ok", keys |-> within]
       ELSE [verdict |-> "return_false", keys |-> {}]

\* One declaration of the loop: verdict and number of files checked.
SkipCheckDecl(st, decl, expected_files_config, fls, drs, active) ==
    LET found == SkipCheckFiles(decl, expected_files_config, fls, drs, active)
        is_shared == SkipCheckScope(decl)
        FileOk(k) ==
            LET file_cfg == expected_files_config[k]
                file_is_shared == IF file_cfg.shared = None THEN is_shared
                                  ELSE Truthy(file_cfg.shared)
            IN validate_artifact(fls, drs, ResolveRoot(file_is_shared, active), k,
                                 file_cfg.hash, FinalMode(file_cfg, decl, st),
                                 NoTolerance, NoTolerance,
                                 FinalSim(file_cfg, decl, st)).ok
    IN IF found.verdict # "ok" THEN [verdict |-> "return_false", checked |-> 0]
       ELSE IF found.keys = {} THEN [verdict |-> "return_false", checked |-> 0]
       ELSE IF \A k \in found.keys : FileOk(k)
       THEN [verdict |-> "ok", checked |-> Cardinality(found.keys)]
       ELSE [verdict |-> "mismatch", checked |-> 1]

RECURSIVE SkipCheckLoop(_, _, _, _, _, _, _)
SkipCheckLoop(st, expected_files_config, fls, drs, active, i, files_checked_count) ==
    IF i > Len(st.outputs) THEN files_checked_count > 0
    ELSE LET d == SkipCheckDecl(st, st.outputs[i], expected_files_config, fls, drs, active)
         IN IF d.verdict = "ok"
            THEN SkipCheckLoop(st, expected_files_config, fls, drs, active, i + 1,
                               files_checked_count + d.checked)
            ELSE FALSE

\* A plausible slip: the comparison with the ledger is left out.
check_outputs_unchanged_always(st, cfg, fls, drs, active) == st.outputs # <<>>

check_outputs_unchanged(st, cfg, fls, drs, active) ==
    IF st.stage_id \notin DOMAIN cfg THEN FALSE
    ELSE IF st.outputs = <<>> THEN FALSE
    ELSE LET config_outputs == cfg[st.stage_id]
             expected == {k \in DOMAIN config_outputs : config_outputs[k].hash # <<>>}
             expected_files_config == [k \in expected |-> config_outputs[k]]
         IN IF DOMAIN config_outputs = {} THEN FALSE
            ELSE IF expected = {} THEN FALSE
            ELSE SkipCheckLoop(st, expected_files_config, fls, drs, active, 1, 0)

\* ---------------------------------------------------- update_output_hashes
\* A plausible slip: the declaration's hash_method is not honoured.
RecordedForDefaultMethod(decl, fls, drs, active) ==
    LET is_shared == RecordScope(decl)
        root == ResolveRoot(is_shared, active)
        EntryOf(k) == LedgerEntry(calculate_file_hash(fls[At(root, k)][k], "sha256"),
                                  "sha256", ToFlag(is_shared), None, NoThreshold)
        keys == IF IsFile(fls, root, decl.path) THEN <<decl.path>>
                ELSE IF IsDir(drs, root, decl.path)
                THEN SortedPaths(FilesUnder(fls, root, decl.path))
                ELSE <<>>
    IN [i \in DOMAIN keys |-> [key |-> keys[i], entry |-> EntryOf(keys[i])]]

\* The (key, entry) pairs one declaration records, in enumeration order.
RecordedFor(decl, fls, drs, active) ==
    LET is_shared == RecordScope(decl)
        hash_method == IF decl.hash_method # None THEN decl.hash_method ELSE "sha256"
        root == ResolveRoot(is_shared, active)
        EntryOf(k) == LedgerEntry(calculate_file_hash(fls[At(root, k)][k], hash_method),
                                  hash_method, ToFlag(is_shared), None, NoThreshold)
        keys == IF IsFile(fls, root, decl.path) THEN <<decl.path>>
                ELSE IF IsDir(drs, root, decl.path)
                THEN SortedPaths(FilesUnder(fls, root, decl.path))
                ELSE <<>>
    IN [i \in DOMAIN keys |-> [key |-> keys[i], entry |-> EntryOf(keys[i])]]

\* A plausible slip: the computed entries are not written to the configuration.
WriteEntriesNowhere(cfg, stage_id, recs, i) == cfg

RECURSIVE WriteEntries(_, _, _, _)
WriteEntries(cfg, stage_id, recs, i) ==
    IF i > Len(recs) THEN cfg
    ELSE WriteEntries(update_artifact(cfg, stage_id, recs[i].key, recs[i].entry),
                      stage_id, recs, i + 1)

RECURSIVE UpdateLoop(_, _, _, _, _, _)
UpdateLoop(st, acc, fls, drs, active, i) ==
    IF i > Len(st.outputs) THEN acc
    ELSE LET recs == RecordedFor(st.outputs[i], fls, drs, active)
         IN UpdateLoop(st,
                [cfg |-> WriteEntries(acc.cfg, st.stage_id, recs, 1),
                 hashes |-> acc.hashes \o [j \in DOMAIN recs |->
                                             <<recs[j].key, recs[j].entry.hash>>]],
                fls, drs, active, i + 1)

\* Returns the new configuration and the list of (path, hash) pairs.
update_output_hashes(st, cfg, fls, drs, active) ==
    UpdateLoop(st, [cfg |-> cfg, hashes |-> <<>>], fls, drs, active, 1)


\* --------------------------------------------------------- validate_outputs
\* Ledger entries matched to one declaration (exact key, else - for an
\* existing directory - every entry lexically or physically under it).
ValidateFiles(decl, expected_files_config, fls, drs, active) ==
    LET is_shared == RecordScope(decl)
        root == ResolveRoot(is_shared, active)
        path == decl.path
    IN IF path \in DOMAIN expected_files_config THEN {path}
       ELSE IF IsDir(drs, root, path)
       THEN {k \in DOMAIN expected_files_config :
               \/ IsUnder(k, path)
               \/ /\ ResolveRoot(Truthy(expected_files_config[k].shared), active) = root
                  /\ IsUnder(k, path)}
       ELSE {}

\* A plausible slip: the file is looked for before the tier is, so a missing
\* file of tier "ignore" fails the stage.
ValidateFileMissingFirst(st, decl, k, file_cfg, fls, drs, active) ==
    LET decl_shared == RecordScope(decl)
        expected_is_shared == IF file_cfg.shared # None THEN Truthy(file_cfg.shared)
                              ELSE decl_shared
        root == ResolveRoot(expected_is_shared, active)
        final_repro_mode == FinalMode(file_cfg, decl, st)
        final_sim == FinalSim(file_cfg, decl, st)
        verdict == IF ~Exists(fls, drs, root, k) THEN "Failed"
                   ELSE IF final_repro_mode = "ignore" THEN "Ignored"
                   ELSE IF validate_artifact(fls, drs, root, k, file_cfg.hash,
                                             final_repro_mode, NoTolerance, NoTolerance,
                                             final_sim).ok
                   THEN "Passed"
                   ELSE "Failed"
    IN [stage |-> st.stage_id, root |-> root, file |-> k,
        status |-> verdict, mode |-> final_repro_mode]

\* The validation record of one matched ledger file.
ValidateFile(st, decl, k, file_cfg, fls, drs, active) ==
    LET decl_shared == RecordScope(decl)
        expected_is_shared == IF file_cfg.shared # None THEN Truthy(file_cfg.shared)
                              ELSE decl_shared
        root == ResolveRoot(expected_is_shared, active)
        final_repro_mode == FinalMode(file_cfg, decl, st)
        final_sim == FinalSim(file_cfg, decl, st)
        verdict == IF final_repro_mode = "ignore" THEN "Ignored"
                   ELSE IF ~Exists(fls, drs, root, k) THEN "Failed"
                   ELSE IF validate_artifact(fls, drs, root, k, file_cfg.hash,
                                             final_repro_mode, NoTolerance, NoTolerance,
                                             final_sim).ok
                   THEN "Passed"
                   ELSE "Failed"
    IN [stage |-> st.stage_id, root |-> root, file |-> k,
        status |-> verdict, mode |-> final_repro_mode]

RECURSIVE ValidateLoop(_, _, _, _, _, _, _)
ValidateLoop(st, expected_files_config, fls, drs, active, i, log) ==
    IF i > Len(st.outputs) THEN log
    ELSE LET decl == st.outputs[i]
             keys == SortedPaths(ValidateFiles(decl, expected_files_config, fls, drs, active))
             recs == [j \in DOMAIN keys |->
                        ValidateFile(st, decl, keys[j], expected_files_config[keys[j]],
                                     fls, drs, active)]
         IN ValidateLoop(st, expected_files_config, fls, drs, active, i + 1, log \o recs)

\* Returns the stage's verify status and the records appended to
\* validation_results.
validate_outputs(st, cfg, fls, drs, active) ==
    IF st.stage_id \notin DOMAIN cfg \/ st.outputs = <<>>
    THEN [passed |-> TRUE, log |-> <<>>]
    ELSE LET config_outputs == cfg[st.stage_id]
             expected == {k \in DOMAIN config_outputs : config_outputs[k].hash # <<>>}
             expected_files_config == [k \in expected |-> config_outputs[k]]
             log == ValidateLoop(st, expected_files_config, fls, drs, active, 1, <<>>)
         IN IF expected = {} THEN [passed |-> TRUE, log |-> <<>>]
            ELSE [passed |-> \A j \in DOMAIN log : log[j].status # "Failed",
                  log |-> log]


\* ------------------------------------------------------------ initial state
\* A freshly constructed workflow (Workflow.__init__): no stage registered,
\* an empty configuration, empty output directories.
NoFiles == [r \in Roots |-> [q \in FilePaths |-> 0]]
NoDirs == [r \in Roots |-> {}]
EmptyLedger == [s \in {} |-> EmptyOutputs]
EmptyMap == [s \in {} |-> None]
EmptyCache == [s \in {} |-> [result |-> 0, hashes |-> <<>>, status |-> None]]

RunStateCleared ==
    /\ pc = "idle"
    /\ plan = <<>>
    /\ planIdx = 0
    /\ stack = <<>>
    /\ executed_stages = {}
    /\ stage_validation_status = EmptyMap
    /\ run_cache = EmptyCache
    /\ validation_results = <<>>
    /\ workflow_failed = FALSE
    /\ results = EmptyMap
    /\ calls = [s \in StageIds |-> 0]
    /\ events = [s \in StageIds |-> <<>>]

InitWorkflow(md, pol) ==
    /\ stages = <<>>
    /\ regError = FALSE
    /\ resolved = NoCall
    /\ validated = NoValidation
    /\ mode = md
    /\ policy = pol
    /\ files = NoFiles
    /\ dirs = NoDirs
    /\ ledger = EmptyLedger
    /\ runs = 0
    /\ edits = 0
    /\ runLimit = 0
    /\ RunStateCleared

\* A plausible slip: a second registration of an id replaces the first.
RegisterStageReplaces(st) ==
    /\ pc = "idle"
    /\ IF st.stage_id \in RegisteredIds(stages)
       THEN /\ regError' = TRUE
            /\ stages' = [stages EXCEPT ![StageOf(stages, st.stage_id)] = st]
            /\ ledger' = ledger
       ELSE /\ regError' = FALSE
            /\ stages' = Append(stages, st)
            /\ ledger' = add_stage(ledger, st)
    /\ resolved' = NoCall
    /\ validated' = validated
    /\ UNCHANGED <<configVars, fsVars, runVars, boundVars>>

\* ------------------------------------------------------------ registration
\* Workflow._register_stage(stage_func), on a configuration that does not
\* hold the stage yet.  Ids are opaque, so a new stage takes the next unused
\* number; registering a number already in use is the duplicate case.
RegisterStage(st) ==
    /\ pc = "idle"
    /\ IF st.stage_id \in RegisteredIds(stages)
       THEN /\ regError' = TRUE
            /\ UNCHANGED <<stages, ledger>>
       ELSE /\ regError' = FALSE
            /\ stages' = Append(stages, st)
            /\ ledger' = add_stage(ledger, st)
    /\ resolved' = NoCall
    /\ validated' = validated
    /\ UNCHANGED <<configVars, fsVars, runVars, boundVars>>

\* A call of resolve_execution_order(self.stages, target) on the registry
\* (Workflow.visualize, Workflow.run); its outcome is kept in resolved.
Resolve(target) ==
    /\ pc = "idle"
    /\ stages # <<>>
    /\ resolved' = [resolve_execution_order(stages, target) EXCEPT !.kind = @]
                     @@ [target |-> target]
    /\ validated' = validated
    /\ UNCHANGED <<registryVars, configVars, fsVars, ledger, runVars, boundVars>>

\* Stage shapes of the resolver specification: any dependency list, on ids
\* registered or not; no outputs.
PlainStage(id, deps) == StageFunction(id, deps, <<>>, FALSE, "strict", NoThreshold)

InitResolve == InitWorkflow("experiment", "stop")

NextResolve ==
    \/ \E deps \in DepLists :
          /\ Len(stages) < MaxStages
          /\ TotalDeps(stages) + Len(deps) <= MaxEdges
          /\ RegisterStage(PlainStage(Len(stages) + 1, deps))
    \/ \E id \in RegisteredIds(stages) : RegisterStage(PlainStage(id, <<>>))
    \/ \E target \in {NoTarget} \cup StageIds : Resolve(target)

SpecResolve == InitResolve /\ [][NextResolve]_vars


\* ----------------------------------------------------- the stage handlers
\* A stage's code handler and the user between runs change the output files.
\* A change rewrites the area of one declared output under one of the roots
\* the engine resolves that declaration to: a declared file gets a content or
\* is removed; a declared directory is removed, or exists with its file "x"
\* absent or holding any content and its file "y" absent or present.
DeclRoots(decl, active) ==
    {At(ResolveRoot(SkipCheckScope(decl), active), decl.path),
     At(ResolveRoot(RecordScope(decl), active), decl.path)}

Contents == 0..MaxContent

NoEffect == [kind |-> "none", root |-> "shared", path |-> PathF, cx |-> 0, cy |-> 0]

\* The changes to the area of one declared output.
DeclEffects(decl, active) ==
    {NoEffect}
    \cup {[kind |-> "file", root |-> r, path |-> decl.path, cx |-> c, cy |-> 0] :
            <<r, c>> \in {t \in Roots \X Contents :
                            /\ decl.path \in FilePaths
                            /\ t[1] \in DeclRoots(decl, active)}}
    \cup {[kind |-> "dir", root |-> r, path |-> decl.path, cx |-> c1, cy |-> c2] :
            <<r, c1, c2>> \in {t \in Roots \X Contents \X (0..1) :
                            /\ decl.path \in DirPaths
                            /\ t[1] \in DeclRoots(decl, active)}}
    \cup {[kind |-> "rmdir", root |-> r, path |-> decl.path, cx |-> 0, cy |-> 0] :
            r \in {t \in Roots : decl.path \in DirPaths /\ t \in DeclRoots(decl, active)}}

\* What one handler call does: one change (or none) per declared output.
RECURSIVE Effects(_, _, _)
Effects(st, active, i) ==
    IF i = 0 THEN {<<>>}
    ELSE {Append(t[1], t[2]) :
            t \in Effects(st, active, i - 1) \X DeclEffects(st.outputs[i], active)}

FilesAfter(fls, e) ==
    IF e.kind = "file" THEN [fls EXCEPT ![e.root][e.path] = e.cx]
    ELSE IF e.kind = "dir"
    THEN [fls EXCEPT ![e.root] = [q \in FilePaths |->
            IF q = e.path \o <<"x">> THEN e.cx
            ELSE IF q = e.path \o <<"y">> THEN e.cy
            ELSE @[q]]]
    ELSE IF e.kind = "rmdir"
    THEN [fls EXCEPT ![e.root] = [q \in FilePaths |-> IF IsUnder(q, e.path) THEN 0 ELSE @[q]]]
    ELSE fls

DirsAfter(drs, e) ==
    IF e.kind = "dir" THEN [drs EXCEPT ![e.root] = @ \cup {e.path}]
    ELSE IF e.kind = "rmdir" THEN [drs EXCEPT ![e.root] = @ \ {e.path}]
    ELSE drs

RECURSIVE FilesAfterAll(_, _, _)
FilesAfterAll(fls, es, i) ==
    IF i > Len(es) THEN fls ELSE FilesAfterAll(FilesAfter(fls, es[i]), es, i + 1)

RECURSIVE DirsAfterAll(_, _, _)
DirsAfterAll(drs, es, i) ==
    IF i > Len(es) THEN drs ELSE DirsAfterAll(DirsAfter(drs, es[i]), es, i + 1)

\* ------------------------------------------------------------ Workflow.run
SKIPPED == "SKIPPED"

\* A plausible slip: the dependency loop is left out.
FrameWithoutDeps(id) ==
    [stage_id |-> id, dep_i |-> Len(GetStage(stages, id).dependencies) + 1,
     deps_flag |-> FALSE, phase |-> "deps"]

\* A new activation of run_stage(id), at the start of its dependency loop.
Frame(id) == [stage_id |-> id, dep_i |-> 1, deps_flag |-> FALSE, phase |-> "deps"]

Top == stack[Len(stack)]

TopStage == GetStage(stages, Top.stage_id)

Put(f, k, v) == [x \in DOMAIN f \cup {k} |-> IF x = k THEN v ELSE f[x]]

Note(s, tag) == [events EXCEPT ![s] = Append(@, tag)]

\* A plausible slip: the resolver's error is caught and the stages ordered so
\* far are run.
StartRunDespiteError(target) ==
    /\ pc = "idle"
    /\ runs < runLimit
    /\ stages # <<>>
    /\ runs' = runs + 1
    /\ UNCHANGED <<edits, runLimit>>
    /\ LET out == resolve_execution_order(stages, target)
       IN /\ resolved' = out @@ [target |-> target]
          /\ validated' = validated
          /\ plan' = out.order
          /\ planIdx' = 1
          /\ pc' = "loop"
    /\ stack' = <<>>
    /\ executed_stages' = {}
    /\ stage_validation_status' = EmptyMap
    /\ run_cache' = EmptyCache
    /\ validation_results' = <<>>
    /\ workflow_failed' = FALSE
    /\ results' = EmptyMap
    /\ calls' = [s \in StageIds |-> 0]
    /\ events' = [s \in StageIds |-> <<>>]
    /\ UNCHANGED <<registryVars, configVars, fsVars, ledger>>

\* A plausible slip: the cache of the previous run is not cleared.
StartRunKeepsCache(target) ==
    /\ pc = "idle"
    /\ runs < runLimit
    /\ stages # <<>>
    /\ runs' = runs + 1
    /\ UNCHANGED <<edits, runLimit>>
    /\ LET out == resolve_execution_order(stages, target)
       IN /\ resolved' = out @@ [target |-> target]
          /\ validated' = validated
          /\ plan' = out.order
          /\ planIdx' = 1
          /\ pc' = IF out.kind = "ok" THEN "loop" ELSE "idle"
    /\ stack' = <<>>
    /\ executed_stages' = {}
    /\ stage_validation_status' = EmptyMap
    /\ run_cache' = run_cache
    /\ validation_results' = <<>>
    /\ workflow_failed' = FALSE
    /\ results' = EmptyMap
    /\ calls' = [s \in StageIds |-> 0]
    /\ events' = [s \in StageIds |-> <<>>]
    /\ UNCHANGED <<registryVars, configVars, fsVars, ledger>>

\* run(stage_id): clear the run state and resolve the plan.  When the
\* resolver raises, run() raises with it and nothing else happens.
StartRun(target) ==
    /\ pc = "idle"
    /\ runs < runLimit
    /\ stages # <<>>
    /\ runs' = runs + 1
    /\ UNCHANGED <<edits, runLimit>>
    /\ LET out == resolve_execution_order(stages, target)
       IN /\ resolved' = out @@ [target |-> target]
          /\ validated' = validated
          /\ plan' = out.order
          /\ planIdx' = 1
          /\ pc' = IF out.kind = "ok" THEN "loop" ELSE "idle"
    /\ stack' = <<>>
    /\ executed_stages' = {}
    /\ stage_validation_status' = EmptyMap
    /\ run_cache' = EmptyCache
    /\ validation_results' = <<>>
    /\ workflow_failed' = FALSE
    /\ results' = EmptyMap
    /\ calls' = [s \in StageIds |-> 0]
    /\ events' = [s \in StageIds |-> <<>>]
    /\ UNCHANGED <<registryVars, configVars, fsVars, ledger>>

\* A plausible slip: a failed verification does not mark the run failed.
LoopAfterReturnIgnoresStatus(tuple) ==
    /\ results' = Put(results, plan[planIdx], tuple.result)
    /\ workflow_failed' = workflow_failed
    /\ planIdx' = planIdx + 1
    /\ pc' = "loop"

\* The run loop after run_stage returned `tuple` for the stage at planIdx.
LoopAfterReturn(tuple) ==
    /\ results' = Put(results, plan[planIdx], tuple.result)
    /\ workflow_failed' = (workflow_failed \/ tuple.status = "False")
    /\ planIdx' = planIdx + 1
    /\ pc' = "loop"

\* A plausible slip: the loop is never left after an exception.
LoopAfterRaiseContinues ==
    /\ workflow_failed' = TRUE
    /\ results' = results
    /\ pc' = "loop"
    /\ planIdx' = planIdx + 1

\* A plausible slip: the loop is left after an exception whatever the policy.
LoopAfterRaiseStops ==
    /\ workflow_failed' = TRUE
    /\ results' = results
    /\ pc' = "finish"
    /\ planIdx' = planIdx

\* The run loop after run_stage raised: both except clauses mark the run
\* failed and leave the loop under "stop".
LoopAfterRaise ==
    /\ workflow_failed' = TRUE
    /\ results' = results
    /\ IF policy = "stop"
       THEN pc' = "finish" /\ planIdx' = planIdx
       ELSE pc' = "loop" /\ planIdx' = planIdx + 1

\* A plausible slip: a dependency's outcome is not looked at.
DepsFlagIgnored(old, status) == old

\* What the caller's dependency loop makes of a dependency's status.
DepsFlag(old, status) ==
    old \/ status # SKIPPED \/ (status = "False" /\ policy = "stop")

\* run_stage returns `tuple` from the innermost activation: to the calling
\* activation (which reads the status in its dependency loop), or to the
\* run loop.
ReturnFrom(tuple) ==
    IF Len(stack) = 1
    THEN /\ stack' = <<>>
         /\ LoopAfterReturn(tuple)
    ELSE LET caller == stack[Len(stack) - 1]
             flag == DepsFlag(caller.deps_flag, tuple.status)
         IN /\ stack' = Append(SubSeq(stack, 1, Len(stack) - 2),
                               [caller EXCEPT !.dep_i = @ + 1, !.deps_flag = flag])
            /\ UNCHANGED <<results, workflow_failed, planIdx, pc>>

\* An exception leaves every activation (each re-raises) and reaches the loop.
RaiseToLoop ==
    /\ stack' = <<>>
    /\ LoopAfterRaise

\* for curr_stage_id in execution_plan: run_stage(curr_stage_id, ...)
LoopCall ==
    /\ pc = "loop"
    /\ planIdx <= Len(plan)
    /\ IF plan[planIdx] \in DOMAIN run_cache
       THEN /\ LoopAfterReturn(run_cache[plan[planIdx]])
            /\ stack' = stack
       ELSE /\ stack' = <<Frame(plan[planIdx])>>
            /\ pc' = "call"
            /\ UNCHANGED <<results, workflow_failed, planIdx>>
    /\ UNCHANGED <<registryVars, resolved, validated, configVars, fsVars, ledger, plan, executed_stages,
                   stage_validation_status, run_cache, validation_results, calls,
                   events, boundVars>>

\* The loop is over, or was left: the final actions of run().
LoopExit ==
    /\ pc = "loop"
    /\ planIdx > Len(plan)
    /\ pc' = "finish"
    /\ UNCHANGED <<registryVars, resolved, validated, configVars, fsVars, ledger, plan, planIdx, stack,
                   executed_stages, stage_validation_status, run_cache,
                   validation_results, workflow_failed, results, calls, events, boundVars>>

FinishRun ==
    /\ pc = "finish"
    /\ pc' = "idle"
    /\ UNCHANGED <<registryVars, resolved, validated, configVars, fsVars, ledger, plan, planIdx, stack,
                   executed_stages, stage_validation_status, run_cache,
                   validation_results, workflow_failed, results, calls, events, boundVars>>


\* --------------------------------------------------------------- run_stage
\* A plausible slip: the cache is never consulted.
CacheHitNever(stage_id) == FALSE

\* 1. Check cache for this run first
CacheHit(stage_id) == stage_id \in DOMAIN run_cache

runStateFrame == <<registryVars, resolved, validated, configVars, plan, boundVars>>

\* 2. The dependency loop of the innermost activation calls run_stage(dep_id):
\* a cached dependency returns at once, another one gets its own activation.
DepStep ==
    /\ pc = "call"
    /\ Top.phase = "deps"
    /\ Top.dep_i <= Len(TopStage.dependencies)
    /\ LET dep_id == TopStage.dependencies[Top.dep_i]
       IN IF CacheHit(dep_id)
          THEN /\ stack' = [stack EXCEPT ![Len(stack)] =
                              [@ EXCEPT !.dep_i = @ + 1,
                                        !.deps_flag = DepsFlag(@, run_cache[dep_id].status)]]
               /\ UNCHANGED <<results, workflow_failed, planIdx, pc>>
          ELSE IF dep_id \notin RegisteredIds(stages)
          THEN RaiseToLoop
          ELSE /\ stack' = Append(stack, Frame(dep_id))
               /\ UNCHANGED <<results, workflow_failed, planIdx, pc>>
    /\ UNCHANGED <<runStateFrame, fsVars, ledger, executed_stages, stage_validation_status,
                   run_cache, validation_results, calls, events>>

\* A plausible slip: skip_if_unchanged is not consulted.
ShouldSkipAnyStage(st, deps_flag) ==
    /\ ~deps_flag
    /\ check_outputs_unchanged(st, ledger, files, dirs, ActiveRoot(mode))

\* 3. Skip check for the current stage
ShouldSkip(st, deps_flag) ==
    /\ st.skip_if_unchanged
    /\ ~deps_flag
    /\ check_outputs_unchanged(st, ledger, files, dirs, ActiveRoot(mode))

\* A plausible slip: a skipped stage is not added to executed_stages.
SkipDecisionNotMarked ==
    /\ pc = "call"
    /\ Top.phase = "deps"
    /\ Top.dep_i > Len(TopStage.dependencies)
    /\ IF ShouldSkip(TopStage, Top.deps_flag)
       THEN LET result_tuple == [result |-> 0, hashes |-> <<>>, status |-> SKIPPED]
            IN /\ executed_stages' = executed_stages
               /\ stage_validation_status' = Put(stage_validation_status, Top.stage_id, SKIPPED)
               /\ run_cache' = Put(run_cache, Top.stage_id, result_tuple)
               /\ events' = Note(Top.stage_id, "skip")
               /\ ReturnFrom(result_tuple)
       ELSE /\ stack' = [stack EXCEPT ![Len(stack)] = [@ EXCEPT !.phase = "execute"]]
            /\ UNCHANGED <<executed_stages, stage_validation_status, run_cache, events,
                           results, workflow_failed, planIdx, pc>>
    /\ UNCHANGED <<runStateFrame, fsVars, ledger, validation_results, calls>>

SkipDecision ==
    /\ pc = "call"
    /\ Top.phase = "deps"
    /\ Top.dep_i > Len(TopStage.dependencies)
    /\ IF ShouldSkip(TopStage, Top.deps_flag)
       THEN LET result_tuple == [result |-> 0, hashes |-> <<>>, status |-> SKIPPED]
            IN /\ executed_stages' = executed_stages \cup {Top.stage_id}
               /\ stage_validation_status' = Put(stage_validation_status, Top.stage_id, SKIPPED)
               /\ run_cache' = Put(run_cache, Top.stage_id, result_tuple)
               /\ events' = Note(Top.stage_id, "skip")
               /\ ReturnFrom(result_tuple)
       ELSE /\ stack' = [stack EXCEPT ![Len(stack)] = [@ EXCEPT !.phase = "execute"]]
            /\ UNCHANGED <<executed_stages, stage_validation_status, run_cache, events,
                           results, workflow_failed, planIdx, pc>>
    /\ UNCHANGED <<runStateFrame, fsVars, ledger, validation_results, calls>>

\* 4. result = stage_func(): the handler changes output files and returns.
HandlerReturns ==
    /\ pc = "call"
    /\ Top.phase = "execute"
    /\ \E es \in Effects(TopStage, ActiveRoot(mode), Len(TopStage.outputs)) :
          /\ files' = FilesAfterAll(files, es, 1)
          /\ dirs' = DirsAfterAll(dirs, es, 1)
    /\ calls' = [calls EXCEPT ![Top.stage_id] = @ + 1]
    /\ events' = Note(Top.stage_id, "call")
    /\ executed_stages' = executed_stages \cup {Top.stage_id}
    /\ stack' = [stack EXCEPT ![Len(stack)] = [@ EXCEPT !.phase = "post"]]
    /\ UNCHANGED <<runStateFrame, ledger, stage_validation_status, run_cache,
                   validation_results, results, workflow_failed, planIdx, pc>>

\* A plausible slip: the stage is marked executed before its handler is called.
HandlerRaisesMarksExecuted ==
    /\ pc = "call"
    /\ Top.phase = "execute"
    /\ \E es \in Effects(TopStage, ActiveRoot(mode), Len(TopStage.outputs)) :
          /\ files' = FilesAfterAll(files, es, 1)
          /\ dirs' = DirsAfterAll(dirs, es, 1)
    /\ calls' = [calls EXCEPT ![Top.stage_id] = @ + 1]
    /\ events' = Note(Top.stage_id, "raise")
    /\ executed_stages' = executed_stages \cup {Top.stage_id}
    /\ RaiseToLoop
    /\ UNCHANGED <<runStateFrame, ledger, stage_validation_status,
                   run_cache, validation_results>>

\* 4. result = stage_func(): the handler raises (after changing files or not);
\* run_stage re-raises.
HandlerRaises ==
    /\ pc = "call"
    /\ Top.phase = "execute"
    /\ \E es \in Effects(TopStage, ActiveRoot(mode), Len(TopStage.outputs)) :
          /\ files' = FilesAfterAll(files, es, 1)
          /\ dirs' = DirsAfterAll(dirs, es, 1)
    /\ calls' = [calls EXCEPT ![Top.stage_id] = @ + 1]
    /\ events' = Note(Top.stage_id, "raise")
    /\ RaiseToLoop
    /\ UNCHANGED <<runStateFrame, ledger, executed_stages, stage_validation_status,
                   run_cache, validation_results>>

\* A plausible slip: the fingerprints are recorded whatever the mode.
HashesOutputsAnyMode(st, md) == st.outputs # <<>>

\* if stage_func.outputs: if mode == "experiment": update_output_hashes(...)
HashesOutputs(st, md) == st.outputs # <<>> /\ md = "experiment"

\* 4./5. Output handling after the handler returned: hashing in experiment
\* mode, validation in reproduction mode; then the outcome is cached.
PostExecute ==
    /\ pc = "call"
    /\ Top.phase = "post"
    /\ LET st == TopStage
           id == Top.stage_id
           result == calls[id]
           active == ActiveRoot(mode)
           recorded == update_output_hashes(st, ledger, files, dirs, active)
           checked == validate_outputs(st, ledger, files, dirs, active)
       IN IF HashesOutputs(st, mode)
          THEN LET result_tuple == [result |-> result, hashes |-> recorded.hashes,
                                    status |-> None]
               IN /\ ledger' = recorded.cfg
                  /\ validation_results' = validation_results
                  /\ stage_validation_status' = Put(stage_validation_status, id, None)
                  /\ run_cache' = Put(run_cache, id, result_tuple)
                  /\ events' = Note(id, "record")
                  /\ ReturnFrom(result_tuple)
          ELSE IF st.outputs # <<>> /\ mode = "reproduction"
          THEN LET result_tuple == [result |-> result, hashes |-> <<>>,
                                    status |-> ToFlag(checked.passed)]
               IN /\ ledger' = ledger
                  /\ validation_results' = validation_results \o checked.log
                  /\ events' = Note(id, "validate")
                  /\ IF ~checked.passed /\ policy = "stop"
                     THEN /\ RaiseToLoop
                          /\ UNCHANGED <<stage_validation_status, run_cache>>
                     ELSE /\ stage_validation_status' =
                                Put(stage_validation_status, id, ToFlag(checked.passed))
                          /\ run_cache' = Put(run_cache, id, result_tuple)
                          /\ ReturnFrom(result_tuple)
          ELSE LET result_tuple == [result |-> result, hashes |-> <<>>, status |-> None]
               IN /\ ledger' = ledger
                  /\ validation_results' = validation_results
                  /\ stage_validation_status' = Put(stage_validation_status, id, None)
                  /\ run_cache' = Put(run_cache, id, result_tuple)
                  /\ events' = Note(id, "done")
                  /\ ReturnFrom(result_tuple)
    /\ UNCHANGED <<runStateFrame, fsVars, executed_stages, calls>>

\* Between runs the user may change output files, and may construct the
\* workflow anew - same registrations, same configuration file - in another
\* mode or with another failure policy.
EnvWrite ==
    /\ pc = "idle"
    /\ runs >= 1
    /\ runs < runLimit
    /\ edits < MaxEdits
    /\ edits' = edits + 1
    /\ \E i \in DOMAIN stages :
         \E j \in DOMAIN stages[i].outputs :
           \E e \in DeclEffects(stages[i].outputs[j], ActiveRoot(mode)) :
            /\ e.kind # "none"
            /\ files' = FilesAfter(files, e)
            /\ dirs' = DirsAfter(dirs, e)
    /\ UNCHANGED <<registryVars, resolved, validated, configVars, ledger, runVars, runs, runLimit>>

Reopen(md, pol) ==
    /\ pc = "idle"
    /\ runs < runLimit
    /\ <<md, pol>> # <<mode, policy>>
    /\ mode' = md
    /\ policy' = pol
    /\ UNCHANGED <<registryVars, resolved, validated, fsVars, ledger, runVars, boundVars>>

Modes == {"experiment", "reproduction"}
Policies == {"stop", "continue"}

RunStep ==
    \/ \E target \in {NoTarget} \cup StageIds : StartRun(target)
    \/ LoopCall
    \/ LoopExit
    \/ FinishRun
    \/ DepStep
    \/ SkipDecision
    \/ HandlerReturns
    \/ HandlerRaises
    \/ PostExecute
    \/ \E md \in Modes, pol \in Policies : Reopen(md, pol)


\* -------------------------------------------------------- specifications
\* The configuration after registering every stage of a registry in order.
RECURSIVE Registered(_, _)
Registered(stgs, i) ==
    IF i = 0 THEN EmptyLedger ELSE add_stage(Registered(stgs, i - 1), stgs[i])

\* The state an earlier experiment run and an earlier reproduction run leave
\* behind when every handler wrote content 1 to its declared output files:
\* the files, and their recorded entries in the configuration.
RECURSIVE PriorFiles(_, _, _)
PriorFiles(stgs, i, fls) ==
    IF i > Len(stgs) THEN fls
    ELSE PriorFiles(stgs, i + 1,
            [r \in Roots |-> [q \in FilePaths |->
                IF \E j \in DOMAIN stgs[i].outputs :
                      /\ stgs[i].outputs[j].path = q
                      /\ r = ResolveRoot(RecordScope(stgs[i].outputs[j]), r)
                THEN 1 ELSE fls[r][q]]])

RECURSIVE PriorLedger(_, _, _, _)
PriorLedger(stgs, i, cfg, fls) ==
    IF i > Len(stgs) THEN cfg
    ELSE PriorLedger(stgs, i + 1,
            update_output_hashes(stgs[i], cfg, fls, NoDirs, "experiment").cfg, fls)

InitRegistered(stgs, prior) ==
    /\ stages = stgs
    /\ regError = FALSE
    /\ resolved = NoCall
    /\ validated = NoValidation
    /\ mode = "experiment"
    /\ policy = "stop"
    /\ files = IF prior THEN PriorFiles(stgs, 1, NoFiles) ELSE NoFiles
    /\ dirs = NoDirs
    /\ ledger = IF prior
                THEN PriorLedger(stgs, 1, Registered(stgs, Len(stgs)),
                                 PriorFiles(stgs, 1, NoFiles))
                ELSE Registered(stgs, Len(stgs))
    /\ runs = 0
    /\ edits = 0
    /\ RunStateCleared

\* Runs of workflows of up to MaxRunStages stages with any dependency lists
\* (MaxRunEdges dependencies in all); a stage declares no output or the one
\* output file "o/f", and has skip_if_unchanged set or not.
MaxRunStages == 3
MaxRunEdges == 2

RunShapes ==
    {[outputs |-> <<>>, skip |-> FALSE],
     [outputs |-> <<StrDecl(PathOF)>>, skip |-> FALSE],
     [outputs |-> <<StrDecl(PathOF)>>, skip |-> TRUE]}

RECURSIVE RunRegistries(_)
RunRegistries(n) ==
    IF n = 0 THEN {<<>>}
    ELSE {Append(t[1], StageFunction(n, t[2], t[3].outputs, t[3].skip, "strict", NoThreshold)) :
            t \in {u \in RunRegistries(n - 1) \X DistinctSeqs(1..MaxRunStages, MaxRunEdges) \X RunShapes :
                     TotalDeps(u[1]) + Len(u[2]) <= MaxRunEdges}}

InitRun ==
    /\ runLimit = MaxRuns
    /\ \E n \in 1..MaxRunStages : \E stgs \in RunRegistries(n) :
          \E prior \in BOOLEAN : InitRegistered(stgs, prior)

SpecRun == InitRun /\ [][RunStep]_vars

\* Runs of the workflows of MaxRunStages stages whose dependencies are
\* registered earlier stages (an acyclic graph, up to the naming of stages),
\* after an earlier run recorded their outputs; a stage has no output and
\* always executes, or declares "o/f" with skip_if_unchanged set.
\* Once run() is called it is the only thread of control: the run loop and
\* every run_stage activation take their next step, and a handler that was
\* invoked returns or raises.  Calling run() and reopening the workflow are
\* the user's choice and are not forced.
InitLive ==
    /\ runLimit = MaxRuns
    /\ \E stgs \in RunRegistries(MaxRunStages) :
          /\ \A i \in DOMAIN stgs :
                /\ Range(stgs[i].dependencies) \subseteq 1..(i - 1)
                /\ stgs[i].skip_if_unchanged = (stgs[i].outputs # <<>>)
          /\ InitRegistered(stgs, TRUE)

SpecRunLive ==
    /\ InitLive
    /\ [][RunStep]_vars
    /\ WF_vars(LoopCall \/ LoopExit \/ FinishRun \/ DepStep \/ SkipDecision
                  \/ HandlerReturns \/ HandlerRaises \/ PostExecute)

\* Runs of a workflow of one stage without dependencies whose outputs are
\* declared in every accepted form: the stage is run, the user may change the
\* files and reopen the workflow in the other mode, and the stage is run again.
SimChoices == {NoThreshold, 50}

SkipDecls ==
    {StrDecl(q) : q \in DeclPaths}
    \cup {DictDecl(t[1], t[2], t[3], t[4][1], t[4][2]) :
            t \in DeclPaths \X {None, "True", "False"} \X {None, "md5"}
                    \X {<<None, NoThreshold>>, <<"tolerant", 50>>}}

\* One declaration of any form, or the string "o/f" followed by a record for "f".
SkipOutputs ==
    {<<d>> : d \in SkipDecls}
    \cup {<<StrDecl(PathOF), DictDecl(PathF, sh, None, None, NoThreshold)>> :
            sh \in {None, "True", "False"}}

SkipStages ==
    {StageFunction(1, <<>>, t[1], t[2], t[3][1], t[3][2]) :
        t \in SkipOutputs \X {TRUE}
                \X {<<"strict", NoThreshold>>, <<"standard", NoThreshold>>,
                     <<"tolerant", 50>>, <<"ignore", NoThreshold>>}}

InitSkip ==
    /\ runLimit = MaxSkipRuns
    /\ \E st \in SkipStages : InitRegistered(<<st>>, FALSE)

NextSkip ==
    \/ \E target \in {NoTarget, 1} : StartRun(target)
    \/ LoopCall
    \/ LoopExit
    \/ FinishRun
    \/ SkipDecision
    \/ HandlerReturns
    \/ HandlerRaises
    \/ PostExecute
    \/ EnvWrite
    \/ \E md \in Modes : Reopen(md, policy)

SpecSkip == InitSkip /\ [][NextSkip]_vars

\* ------------------------------------------------- paths outside the roots
\* Runs of a workflow of one stage whose output is declared by a relative
\* path or by the absolute path "/f", with or without a scope flag.
KeyDecls ==
    {StrDecl(q) : q \in {PathF, PathOF, PathAbs}}
    \cup {DictDecl(PathAbs, sh, None, None, NoThreshold) : sh \in {"True", "False"}}

KeyStages ==
    {StageFunction(1, <<>>, <<d>>, sk, "strict", NoThreshold) : d \in KeyDecls, sk \in BOOLEAN}

InitKeys ==
    /\ runLimit = MaxSkipRuns
    /\ \E st \in KeyStages : InitRegistered(<<st>>, FALSE)

SpecKeys == InitKeys /\ [][NextSkip]_vars

\* ------------------------------------------- settings at the three levels
\* One run of a workflow of one stage whose configuration was loaded with a
\* hashed entry for the declared file "f": the entry, the declaration and
\* the stage each carry a tier and a similarity threshold, or leave them
\* out.  The file is on disk as recorded (content 1) or changed.
RecordedContent == 1

LevelSettings ==
    {<<None, NoThreshold>>, <<None, 100>>, <<"strict", NoThreshold>>,
     <<"tolerant", NoThreshold>>, <<"tolerant", 50>>, <<"ignore", NoThreshold>>}

StageSettings ==
    {<<"strict", NoThreshold>>, <<"tolerant", 50>>, <<"tolerant", 100>>,
     <<"ignore", NoThreshold>>}

TierStage(dl, sk, sl) ==
    StageFunction(1, <<>>, <<DictDecl(PathF, "False", None, dl[1], dl[2])>>, sk, sl[1], sl[2])

\* The loaded configuration: the entry of "f" with its "reproduction" settings.
TierLedger(fl) ==
    [s \in {1} |-> [k \in {PathF} |->
        LedgerEntry(calculate_file_hash(RecordedContent, "sha256"), "sha256", "False",
                    fl[1], fl[2])]]

InitTier ==
    /\ \E fl \in LevelSettings, dl \in LevelSettings, sl \in StageSettings, sk \in BOOLEAN :
          /\ stages = <<TierStage(dl, sk, sl)>>
          /\ ledger = TierLedger(fl)
    /\ \E c \in 1..MaxContent :
          files = [r \in Roots |-> [q \in FilePaths |->
                      IF q = PathF /\ r # "shared" THEN c ELSE 0]]
    /\ mode \in Modes
    /\ policy \in Policies
    /\ regError = FALSE
    /\ resolved = NoCall
    /\ validated = NoValidation
    /\ dirs = NoDirs
    /\ runs = 0
    /\ edits = 0
    /\ runLimit = MaxRuns
    /\ RunStateCleared

NextTier ==
    \/ StartRun(NoTarget)
    \/ LoopCall
    \/ LoopExit
    \/ FinishRun
    \/ SkipDecision
    \/ HandlerReturns
    \/ HandlerRaises
    \/ PostExecute

SpecTier == InitTier /\ [][NextTier]_vars

\* ------------------------------------------------- the validator on its own
\* validate_artifact called directly on one artifact, a data file under the
\* shared root, which the environment writes, removes or makes unreadable.
\* A call reads nothing an earlier call left behind, so a behaviour holds one
\* call, made in any state of the artifact.
MaxValue == 5

ArtifactRoot == "shared"

ArtifactPath == PathF

ArtifactContents == (0..MaxValue) \cup {Unreadable}

\* The numeric value a content stands for, in thousandths: steps of 0.005.
ValueOf(content) == 1000 + 5 * content

ReferenceHashes ==
    {calculate_file_hash(c, m) : c \in 1..MaxValue, m \in {"sha256", "md5"}} \cup {<<>>}

TierValues == {"strict", "standard", "tolerant", "ignore", "fuzzy"}

KnownTiers == {"strict", "standard", "tolerant", "ignore"}

Thresholds == {NoThreshold, 0, 50, 75, 100}

Tolerances == {NoTolerance, 10}

ArtifactWrite(content) ==
    /\ files[ArtifactRoot][ArtifactPath] # content
    /\ files' = [files EXCEPT ![ArtifactRoot][ArtifactPath] = content]
    /\ UNCHANGED <<registryVars, resolved, validated, configVars, dirs, ledger, runVars,
                   boundVars>>

ValidateCall(reference_hash, validation_type, tolerance_absolute, tolerance_relative, similarity_threshold) ==
    /\ validated.kind = "none"
    /\ LET out == validate_artifact(files, dirs, ArtifactRoot, ArtifactPath, reference_hash,
                                    validation_type, tolerance_absolute,
                                    tolerance_relative, similarity_threshold)
       IN validated' = [kind |-> "call", path |-> ArtifactPath,
                        content |-> files[ArtifactRoot][ArtifactPath],
                        reference_hash |-> reference_hash,
                        validation_type |-> validation_type,
                        tolerance_absolute |-> tolerance_absolute,
                        tolerance_relative |-> tolerance_relative,
                        similarity_threshold |-> similarity_threshold,
                        ok |-> out.ok, msg |-> out.msg]
    /\ UNCHANGED <<registryVars, resolved, configVars, fsVars, ledger, runVars, boundVars>>

InitValidate == InitWorkflow("reproduction", "stop")

NextValidate ==
    \/ \E content \in ArtifactContents : ArtifactWrite(content)
    \/ \E reference_hash \in ReferenceHashes, validation_type \in TierValues,
          tolerance_absolute \in Tolerances, similarity_threshold \in Thresholds :
          ValidateCall(reference_hash, validation_type, tolerance_absolute, NoTolerance,
                       similarity_threshold)

SpecValidate == InitValidate /\ [][NextValidate]_vars

\* ------------------------------------------------- directory fingerprints
\* calculate_dir_hash called on the shared directory "d", which holds any of
\* the files d/x, d/y, d/a/b and d/a-b; rglob lists them in any order.
\* Strings are compared by code point: a component name is spelled as the
\* sequence of its code points.
Spell(name) ==
    CASE name = "a" -> <<97>>
      [] name = "b" -> <<98>>
      [] name = "a-b" -> <<97, 45, 98>>
      [] name = "x" -> <<120>>
      [] name = "y" -> <<121>>
      [] name = "d" -> <<100>>
      [] OTHER -> <<47>>

\* s < t for strings (sequences of code points)
RECURSIVE StrLess(_, _)
StrLess(s, t) ==
    IF t = <<>> THEN FALSE
    ELSE IF s = <<>> THEN TRUE
    ELSE IF Head(s) # Head(t) THEN Head(s) < Head(t)
    ELSE StrLess(Tail(s), Tail(t))

\* str(path): the components joined by the separator "/" (code point 47)
RECURSIVE PathString(_)
PathString(path) ==
    IF path = <<>> THEN <<>>
    ELSE IF Len(path) = 1 THEN Spell(path[1])
    ELSE Spell(path[1]) \o <<47>> \o PathString(Tail(path))

\* PurePath.__lt__: the tuples of components are compared, component by
\* component, each as a string
RECURSIVE PathLess(_, _)
PathLess(p, q) ==
    IF q = <<>> THEN FALSE
    ELSE IF p = <<>> THEN TRUE
    ELSE IF p[1] # q[1] THEN StrLess(Spell(p[1]), Spell(q[1]))
    ELSE PathLess(Tail(p), Tail(q))

\* A plausible slip: the files are taken as rglob lists them.
sorted_as_listed(listing) == listing

\* sorted(p for p in dir_path.rglob("*") if p.is_file())
sorted(listing) ==
    CHOOSE s \in DistinctSeqs(Range(listing), Len(listing)) :
       /\ Len(s) = Len(listing)
       /\ \A i, j \in DOMAIN s : i < j => PathLess(s[i], s[j])

\* What the loop feeds into the digest: for each file the string of its path
\* relative to the directory (file_path.relative_to(dir_path)), then its
\* file hash.  The digest of a stream stands for the
\* stream: equal streams give equal digests and different ones do not.
RECURSIVE Fed(_, _, _, _, _)
Fed(fls, root, dir, ordered, i) ==
    IF i > Len(ordered) THEN <<>>
    ELSE PathString(SubSeq(ordered[i], Len(dir) + 1, Len(ordered[i])))
           \o calculate_file_hash(fls[root][ordered[i]], "sha256")
           \o Fed(fls, root, dir, ordered, i + 1)

calculate_dir_hash(fls, root, dir, listing) == Fed(fls, root, dir, sorted(listing), 1)

\* The orders in which rglob may list the files of the directory.
Listings(fls, root, dir) ==
    {l \in DistinctSeqs(FilesUnder(fls, root, dir), Cardinality(FilesUnder(fls, root, dir))) :
        Len(l) = Cardinality(FilesUnder(fls, root, dir))}

DirWrite(path, content) ==
    /\ validated.kind = "none"
    /\ IsUnder(path, PathD)
    /\ files["shared"][path] # content
    /\ files' = [files EXCEPT !["shared"][path] = content]
    /\ UNCHANGED <<registryVars, resolved, validated, configVars, dirs, ledger, runVars,
                   boundVars>>

DirHashCall(listing) ==
    /\ validated.kind = "none"
    /\ validated' = [NoValidation EXCEPT
                        !.kind = "dir_hash",
                        !.path = PathD,
                        !.reference_hash = calculate_dir_hash(files, "shared", PathD, listing)]
    /\ UNCHANGED <<registryVars, resolved, configVars, fsVars, ledger, runVars, boundVars>>

InitDir ==
    /\ stages = <<>>
    /\ regError = FALSE
    /\ resolved = NoCall
    /\ validated = NoValidation
    /\ mode = "experiment"
    /\ policy = "stop"
    /\ files = NoFiles
    /\ dirs = [NoDirs EXCEPT !["shared"] = {PathD}]
    /\ ledger = EmptyLedger
    /\ runs = 0
    /\ edits = 0
    /\ runLimit = 0
    /\ RunStateCleared

NextDir ==
    \/ \E path \in FilePaths, content \in Contents : DirWrite(path, content)
    \/ \E listing \in Listings(files, "shared", PathD) : DirHashCall(listing)

SpecDir == InitDir /\ [][NextDir]_vars


\* ===================================================== properties: resolver
\* Graph notions the properties are stated with.
DepsOf(stgs, id) ==
    IF id \in RegisteredIds(stgs) THEN Range(GetStage(stgs, id).dependencies) ELSE {}

RECURSIVE ClosureOf(_, _)
ClosureOf(stgs, S) ==
    LET T == S \cup UNION {DepsOf(stgs, x) : x \in S}
    IN IF T = S THEN S ELSE ClosureOf(stgs, T)

OnCycle(stgs, id) == id \in RegisteredIds(stgs) /\ id \in ClosureOf(stgs, DepsOf(stgs, id))

Acyclic(stgs) == \A id \in RegisteredIds(stgs) : ~OnCycle(stgs, id)

AllDepsRegistered(stgs) ==
    \A id \in RegisteredIds(stgs) : DepsOf(stgs, id) \subseteq RegisteredIds(stgs)

\* The ids a call has to look at: everything, or the target's closure.
Region(stgs, target) ==
    ClosureOf(stgs, IF target = NoTarget THEN RegisteredIds(stgs) ELSE {target})

\* The stages visit() was entered for (marked visiting) before the call ended.
EnteredBy(stgs, target) ==
    IF target = NoTarget
    THEN LET st == visitAll(stgs, ResolverStart, AllStages(stgs), 1)
         IN st.visiting \cup st.visited
    ELSE IF target \in RegisteredIds(stgs)
    THEN LET st == visit(stgs, ResolverStart, target)
         IN st.visiting \cup st.visited
    ELSE {}

Called == resolved.kind # "none"

TargetAccepted == resolved.target = NoTarget \/ resolved.target \in RegisteredIds(stages)

IndexIn(seq, x) == CHOOSE i \in DOMAIN seq : seq[i] = x

\* C8: for an acyclic stage set whose dependencies are all registered, the
\* call (with or without a target) returns a list in which every dependency
\* of every listed stage stands before that stage.
C8_DependenciesFirst ==
    (Called /\ TargetAccepted /\ Acyclic(stages) /\ AllDepsRegistered(stages))
    => /\ resolved.kind = "ok"
       /\ \A i \in DOMAIN resolved.order :
             \A dep \in DepsOf(stages, resolved.order[i]) :
                /\ dep \in Range(resolved.order)
                /\ IndexIn(resolved.order, dep) < i

\* C8 witness: a returned order of three stages that is not the registration
\* order, one stage having two dependencies.
C8_Witness ==
    /\ resolved.kind = "ok"
    /\ Len(resolved.order) = 3
    /\ resolved.order # AllStages(stages)
    /\ \E id \in RegisteredIds(stages) : Cardinality(DepsOf(stages, id)) = 2

\* C9 (as stated): whenever the graph contains a cycle, the call (without a
\* target or with a registered one) raises the cyclic-dependency error and
\* names a stage on a cycle.
C9_AnyCycleRaises ==
    (Called /\ TargetAccepted /\ ~Acyclic(stages))
    => (resolved.kind = "circular" /\ OnCycle(stages, resolved.name))

\* C9 (amended): whenever the ids the call has to look at - every stage, or
\* the target's dependency closure - contain a cycle, the call returns no
\* order; it raises the cyclic-dependency error naming a stage on a cycle,
\* unless it meets an unregistered dependency first, which can only happen
\* when one is listed in that region.
C9_CycleInRegionRaises ==
    (Called /\ TargetAccepted
       /\ \E id \in Region(stages, resolved.target) : OnCycle(stages, id))
    => /\ resolved.kind \in {"circular", "not_found"}
       /\ resolved.order = <<>>
       /\ resolved.kind = "circular" => OnCycle(stages, resolved.name)
       /\ Region(stages, resolved.target) \subseteq RegisteredIds(stages)
             => resolved.kind = "circular"

\* C9 witness: a call with a target raised the cyclic-dependency error for a
\* cycle of more than one stage.
C9_Witness ==
    /\ resolved.kind = "circular"
    /\ resolved.target # NoTarget
    /\ resolved.name \notin DepsOf(stages, resolved.name)

\* C10 (as stated): when a stage the resolver visited lists an unregistered
\* dependency, the call fails with the unknown-dependency error and returns
\* no order; an unregistered target is rejected.
C10_UnknownDependencyRaises ==
    /\ (Called /\ \E id \in EnteredBy(stages, resolved.target) :
                     ~(DepsOf(stages, id) \subseteq RegisteredIds(stages)))
       => (resolved.kind = "not_found" /\ resolved.order = <<>>)
    /\ (Called /\ ~TargetAccepted)
       => (resolved.kind = "target_unregistered" /\ resolved.order = <<>>)

\* C10 (amended): when a stage the resolver visited lists an unregistered
\* dependency, the call fails and returns no order: with the
\* unknown-dependency error naming an unregistered dependency of a visited
\* stage, or with the cyclic-dependency error when it meets a cycle first;
\* without a cycle in the region it is the unknown-dependency error.  An
\* unregistered target is rejected.
C10_UnknownDependencyFails ==
    /\ (Called /\ \E id \in EnteredBy(stages, resolved.target) :
                     ~(DepsOf(stages, id) \subseteq RegisteredIds(stages)))
       => /\ resolved.kind \in {"not_found", "circular"}
          /\ resolved.order = <<>>
          /\ resolved.kind = "not_found"
                => /\ resolved.name \notin RegisteredIds(stages)
                   /\ \E id \in EnteredBy(stages, resolved.target) :
                         resolved.name \in DepsOf(stages, id)
          /\ resolved.kind = "circular" => OnCycle(stages, resolved.name)
          /\ (\A id \in Region(stages, resolved.target) : ~OnCycle(stages, id))
                => resolved.kind = "not_found"
    /\ (Called /\ ~TargetAccepted)
       => (resolved.kind = "target_unregistered" /\ resolved.order = <<>>)

\* C10 witness: a call with a target raised the unknown-dependency error for
\* a dependency that a stage other than the target lists.
C10_Witness ==
    /\ resolved.kind = "not_found"
    /\ resolved.target # NoTarget
    /\ resolved.name \notin DepsOf(stages, resolved.target)

NoRepeats(seq) == Cardinality(Range(seq)) = Len(seq)

\* C11: with a target, the returned plan holds exactly the stages of the
\* target's transitive dependency closure, each once, the target last.
C11_TargetPlanIsClosure ==
    (Called /\ resolved.target # NoTarget /\ resolved.kind = "ok")
    => /\ Range(resolved.order) = Region(stages, resolved.target)
       /\ NoRepeats(resolved.order)
       /\ resolved.order[Len(resolved.order)] = resolved.target

\* C11 witness: a plan for a target whose closure is the target and one
\* dependency, while a third registered stage is left out.
C11_Witness ==
    /\ resolved.kind = "ok"
    /\ resolved.target # NoTarget
    /\ Len(resolved.order) = 2
    /\ Len(stages) = 3

\* C12: without a target, on a valid graph, the returned plan is a
\* permutation of the registered stage ids.
C12_FullPlanIsPermutation ==
    (Called /\ resolved.target = NoTarget
       /\ Acyclic(stages) /\ AllDepsRegistered(stages))
    => /\ resolved.kind = "ok"
       /\ Range(resolved.order) = RegisteredIds(stages)
       /\ NoRepeats(resolved.order)

\* C12 witness: a full plan of three stages in which one stage is a
\* dependency of the two others.
C12_Witness ==
    /\ resolved.kind = "ok"
    /\ resolved.target = NoTarget
    /\ Len(resolved.order) = 3
    /\ \E id \in RegisteredIds(stages) :
          Cardinality({x \in RegisteredIds(stages) : id \in DepsOf(stages, x)}) = 2

\* The orders in which the elements of a list without repetitions can be listed.
ListingOrders(seq) == {p \in DistinctSeqs(Range(seq), Len(seq)) : Len(p) = Len(seq)}

\* The stage sets that differ from stgs only in the order in which each
\* stage lists its dependencies.
RECURSIVE Relistings(_, _)
Relistings(stgs, i) ==
    IF i = 0 THEN {<<>>}
    ELSE {Append(t[1], [stgs[i] EXCEPT !.dependencies = t[2]]) :
            t \in Relistings(stgs, i - 1) \X ListingOrders(stgs[i].dependencies)}

Active == ActiveRoot(mode)

InHandler == pc = "call" /\ Top.phase = "execute"

\* run_stage takes the skip branch for the innermost activation in this step.
SkipTaken ==
    /\ pc = "call"
    /\ Top.phase = "deps"
    /\ events'[Top.stage_id] = Append(events[Top.stage_id], "skip")

StatusOf(id) == IF id \in DOMAIN run_cache THEN run_cache[id].status ELSE "absent"

\* The ledger entries with a hash that belong to a declaration of stage id:
\* the declared file's own entry, or the entries of the files under the
\* declared directory.
HashedEntries(id) ==
    IF id \in DOMAIN ledger THEN {k \in DOMAIN ledger[id] : ledger[id][k].hash # <<>>} ELSE {}

KeysOf(id, decl) == {k \in HashedEntries(id) : k = decl.path \/ IsUnder(k, decl.path)}

\* The root the file of a ledger entry lives under, by the entry's scope flag.
EntryRoot(id, k) == ResolveRoot(Truthy(ledger[id][k].shared), Active)

\* The declared output is on disk exactly as it was recorded: it has ledger
\* entries, every recorded file exists and hashes (by the method it was
\* recorded with) to the recorded value, and a declared directory exists and
\* holds no other file.
UnchangedSinceRecorded(id, decl) ==
    LET K == KeysOf(id, decl)
    IN /\ K # {}
       /\ \A k \in K :
             /\ files[EntryRoot(id, k)][k] # 0
             /\ calculate_file_hash(files[EntryRoot(id, k)][k], ledger[id][k].hash_method)
                  = ledger[id][k].hash
             /\ decl.path \in DirPaths
                  => /\ IsDir(dirs, EntryRoot(id, k), decl.path)
                     /\ FilesUnder(files, EntryRoot(id, k), decl.path) \subseteq K

\* The current fingerprint of every recorded file of the declaration equals
\* the fingerprint in its ledger entry.
FingerprintsEqual(id, decl) ==
    LET K == KeysOf(id, decl)
    IN /\ K # {}
       /\ \A k \in K :
             /\ files[EntryRoot(id, k)][k] # 0
             /\ CurrentHash(files, EntryRoot(id, k), k) = ledger[id][k].hash

\* C1 (as stated): in a run the handler of each stage is invoked at most once.
C1_HandlerAtMostOnce == \A id \in StageIds : calls[id] <= 1

\* C2: whenever a stage's handler is invoked, every declared dependency has
\* completed in this run: it was executed or skipped and has a cached outcome.
C2_DependenciesCompleted ==
    InHandler
    => \A dep \in Range(TopStage.dependencies) :
          /\ dep \in DOMAIN run_cache
          /\ dep \in executed_stages
          /\ \/ run_cache[dep].status = SKIPPED
             \/ calls[dep] >= 1

\* C2 witness: a handler is being invoked for a stage with two dependencies,
\* one skipped and one executed in this run.
C2_Witness ==
    /\ InHandler
    /\ Len(TopStage.dependencies) = 2
    /\ StatusOf(TopStage.dependencies[1]) = SKIPPED
    /\ StatusOf(TopStage.dependencies[2]) = None
    /\ calls[TopStage.dependencies[2]] = 1

\* C3 (as stated): a stage with skip_if_unchanged whose every declared
\* output, in whatever form it is declared, exists and hashes to its ledger
\* entry, and none of whose dependencies was re-run, is skipped - so its
\* handler is never about to be invoked.
C3_UnchangedIsSkipped ==
    (/\ InHandler
     /\ TopStage.skip_if_unchanged
     /\ TopStage.outputs # <<>>
     /\ \A dep \in Range(TopStage.dependencies) : StatusOf(dep) = SKIPPED)
    => ~(\A j \in DOMAIN TopStage.outputs :
            UnchangedSinceRecorded(Top.stage_id, TopStage.outputs[j]))

\* C4 (as stated): whenever a stage is skipped, the current fingerprint of
\* every declared output equals the one in its ledger entry, whatever tier or
\* threshold is configured; and at least one output was checked.
C4_SkippedMeansEqual ==
    [][SkipTaken
         => /\ TopStage.outputs # <<>>
            /\ \A j \in DOMAIN TopStage.outputs :
                  FingerprintsEqual(Top.stage_id, TopStage.outputs[j])]_vars

\* C5: a stage is never skipped when a declared output has no ledger entry
\* with a hash - a declared file without entry, a declared directory without
\* entries beneath it, an entry whose scope flag differs from the
\* declaration's, or a declared path that does not exist.
C5_NoEntryNoSkip ==
    [][SkipTaken
         => \A j \in DOMAIN TopStage.outputs :
              LET decl == TopStage.outputs[j]
                  declared_shared == SkipCheckScope(decl)
              IN /\ Exists(files, dirs, ResolveRoot(declared_shared, Active), decl.path)
                 /\ \E k \in KeysOf(Top.stage_id, decl) :
                       Truthy(ledger[Top.stage_id][k].shared) = declared_shared
                 /\ decl.path \in FilePaths
                       => /\ decl.path \in HashedEntries(Top.stage_id)
                          /\ Truthy(ledger[Top.stage_id][decl.path].shared)
                               = declared_shared]_vars

\* C5 witness: in a second run a stage with skip_if_unchanged is not skipped
\* because the ledger entry of its declared file, which exists, carries
\* another scope flag than the declaration.
C5_Witness ==
    /\ InHandler
    /\ runs = 2
    /\ TopStage.skip_if_unchanged
    /\ \E j \in DOMAIN TopStage.outputs :
          LET decl == TopStage.outputs[j]
          IN /\ decl.path \in HashedEntries(Top.stage_id)
             /\ IsFile(files, ResolveRoot(SkipCheckScope(decl), Active), decl.path)
             /\ Truthy(ledger[Top.stage_id][decl.path].shared) # SkipCheckScope(decl)

\* C6 (as stated, for outputs compared strictly): a stage whose declared
\* output is a directory is never skipped when the directory's files differ
\* from the recorded ones - modified, removed or added.
C6_ChangedDirectoryNotSkipped ==
    [][(SkipTaken /\ TopStage.reproduction_mode = "strict")
         => \A j \in DOMAIN TopStage.outputs :
              LET decl == TopStage.outputs[j]
                  root == ResolveRoot(SkipCheckScope(decl), Active)
              IN (decl.path \in DirPaths /\ decl.mode = None)
                 => /\ FilesUnder(files, root, decl.path) = KeysOf(Top.stage_id, decl)
                    /\ FingerprintsEqual(Top.stage_id, decl)]_vars

\* C7: a stage one of whose dependencies has, in this run, an outcome other
\* than SKIPPED is not skipped, whatever its outputs; its handler was invoked.
C7_RerunDependencyForbidsSkip ==
    \A id \in DOMAIN run_cache :
       (\E dep \in DepsOf(stages, id) : StatusOf(dep) \notin {SKIPPED, "absent"})
       => /\ run_cache[id].status # SKIPPED
          /\ calls[id] >= 1

\* C7 witness: a handler is being invoked for a stage with skip_if_unchanged
\* whose outputs match the ledger, because a dependency was executed.
C7_Witness ==
    /\ InHandler
    /\ TopStage.skip_if_unchanged
    /\ check_outputs_unchanged(TopStage, ledger, files, dirs, Active)
    /\ \E dep \in Range(TopStage.dependencies) : StatusOf(dep) = None


\* C14: a run in reproduction mode leaves the ledger as it is, whatever the
\* outcome of its stages; the ledger is written only when a stage that ran
\* in experiment mode has its outputs recorded.
C14_VerifyRunKeepsLedger ==
    [][/\ (mode = "reproduction" => ledger' = ledger)
       /\ (ledger' # ledger =>
             /\ mode = "experiment"
             /\ pc = "call"
             /\ Top.phase = "post"
             /\ Top.stage_id \in executed_stages)]_vars

\* C14 witness: a reproduction run over a recorded ledger is through, one
\* stage failed verification, another passed it or was skipped.
C14_Witness ==
    /\ mode = "reproduction"
    /\ pc = "finish"
    /\ \E id \in RegisteredIds(stages) : HashedEntries(id) # {}
    /\ \E a, b \in RegisteredIds(stages) :
          /\ a # b
          /\ StatusOf(a) = "False"
          /\ StatusOf(b) \in {"True", SKIPPED}


\* The stages with a failed record in this run's validation results.
FailedStages ==
    {validation_results[i].stage :
       i \in {j \in DOMAIN validation_results : validation_results[j].status = "Failed"}}

\* C15: in reproduction mode under "stop", once a stage failed verification
\* the failure has been raised (the stage has no cached outcome and no
\* result), the run is marked failed and is past its loop, and no handler of
\* a stage later in the plan has been or will be invoked.
C15_StopHaltsAfterFailedVerify ==
    (mode = "reproduction" /\ policy = "stop")
    => \A f \in FailedStages :
          /\ pc \in {"finish", "idle"}
          /\ stack = <<>>
          /\ workflow_failed
          /\ StatusOf(f) = "absent"
          /\ f \notin DOMAIN results
          /\ \A j \in DOMAIN plan : j > IndexIn(plan, f) => events[plan[j]] = <<>>

\* C15 witness: under "stop" a stage failed verification while a further
\* stage of the plan was still to come.
C15_Witness ==
    /\ mode = "reproduction"
    /\ policy = "stop"
    /\ pc = "finish"
    /\ \E f \in FailedStages : IndexIn(plan, f) < Len(plan)

\* C16: in reproduction mode under "continue", a stage that failed
\* verification is recorded with status false and nothing is raised for it;
\* when the loop is over it went through the whole plan, every stage was
\* skipped or had its handler invoked unless the handler of one of its
\* dependencies raised, and the run is marked failed.
C16_ContinueRecordsAndGoesOn ==
    (mode = "reproduction" /\ policy = "continue")
    => \A f \in FailedStages :
          /\ StatusOf(f) = "False"
          /\ f \in DOMAIN stage_validation_status
          /\ stage_validation_status[f] = "False"
          /\ pc \in {"finish", "idle"}
               => /\ workflow_failed
                  /\ planIdx = Len(plan) + 1
                  /\ \A s \in Range(plan) :
                        \/ events[s] # <<>>
                        \/ \E r \in Region(stages, s) \ {s} :
                              \E i \in DOMAIN events[r] : events[r][i] = "raise"

\* C16 witness: under "continue" a stage failed verification and the handler
\* of a stage that depends on it was invoked afterwards.
C16_Witness ==
    /\ mode = "reproduction"
    /\ policy = "continue"
    /\ pc = "finish"
    /\ \E f \in FailedStages :
          \E d \in RegisteredIds(stages) :
             /\ f \in DepsOf(stages, d)
             /\ events[d] # <<>>
             /\ events[d][1] = "call"


\* The handler of stage s was invoked (and returned or raised) in this run.
Invoked(s) == \E i \in DOMAIN events[s] : events[s][i] \in {"call", "raise"}

Raised(s) == \E i \in DOMAIN events[s] : events[s][i] = "raise"

\* C17 (as stated): once a handler raised, no handler of a stage later in
\* the plan is invoked in that run, under either failure policy.
C17_HandlerExceptionIsFatal ==
    \A i \in DOMAIN plan :
       Raised(plan[i]) => \A j \in DOMAIN plan : j > i => ~Invoked(plan[j])


\* C18: the fingerprints a stage recorded when it completed (the pairs it
\* returned) are in the ledger from then on: through the rest of the run,
\* when a later stage's handler raises, and after run() has returned.
C18_RecordedFingerprintsKept ==
    \A s \in DOMAIN run_cache :
       \A i \in DOMAIN run_cache[s].hashes :
          LET key == run_cache[s].hashes[i][1]
              hash == run_cache[s].hashes[i][2]
          IN /\ s \in DOMAIN ledger
             /\ key \in DOMAIN ledger[s]
             /\ ledger[s][key].hash = hash

\* C18 witness: an experiment run has returned; a stage recorded
\* fingerprints and the handler of a later stage of the plan raised.
C18_Witness ==
    /\ mode = "experiment"
    /\ pc = "idle"
    /\ runs = 1
    /\ workflow_failed
    /\ \E i, j \in DOMAIN plan :
          /\ i < j
          /\ plan[i] \in DOMAIN run_cache
          /\ run_cache[plan[i]].hashes # <<>>
          /\ Raised(plan[j])
          /\ ~\E k \in DOMAIN events[plan[j]] : events[plan[j]][k] = "call"


\* C20: when run_stage comes to the skip check of a stage without
\* skip_if_unchanged - its dependencies are through and none raised - it
\* goes on to the stage's handler; the skip branch is not taken.
C20_NoSkipWithoutFlag ==
    [][(/\ pc = "call"
        /\ Top.phase = "deps"
        /\ Top.dep_i > Len(TopStage.dependencies)
        /\ ~TopStage.skip_if_unchanged)
       => /\ ~SkipTaken
          /\ pc' = "call"
          /\ Len(stack') = Len(stack)
          /\ stack'[Len(stack')].stage_id = Top.stage_id
          /\ stack'[Len(stack')].phase = "execute"]_vars

\* C20 witness: the handler of a stage without skip_if_unchanged is about
\* to run although its outputs match the ledger and every one of its
\* dependencies was skipped.
C20_Witness ==
    /\ InHandler
    /\ ~TopStage.skip_if_unchanged
    /\ TopStage.dependencies # <<>>
    /\ ~Top.deps_flag
    /\ TopStage.outputs # <<>>
    /\ check_outputs_unchanged(TopStage, ledger, files, dirs, Active)


\* The stage's handler returned in this verify run and left every declared
\* output byte-identical to what the ledger recorded.
VerifiedIdentical(id) ==
    /\ mode = "reproduction"
    /\ events[id] # <<>>
    /\ events[id][Len(events[id])] = "validate"
    /\ \A i \in DOMAIN GetStage(stages, id).outputs :
          UnchangedSinceRecorded(id, GetStage(stages, id).outputs[i])

\* C19 (as stated): a verify run whose stages produce byte-identical outputs
\* to those recorded never yields verify status false and reports success,
\* for every output declaration and every tier.
C19_RoundTripPasses ==
    \A id \in RegisteredIds(stages) :
       VerifiedIdentical(id)
       => /\ id \notin FailedStages
          /\ StatusOf(id) # "False"
          /\ ~workflow_failed


\* The stage's handler has returned in this experiment run and its outputs
\* were handed to update_output_hashes; the files are as the handler left them.
JustRecorded(id) ==
    /\ mode = "experiment"
    /\ pc \in {"call", "loop", "finish"}
    /\ events[id] # <<>>
    /\ events[id][Len(events[id])] = "record"

\* The ledger entry of stage id under key k is what declaration decl asks
\* for: the fingerprint of the file as it is now, by the declared method,
\* with the declaration's scope.
EntryMatches(id, decl, k) ==
    LET is_shared == RecordScope(decl)
        method == IF decl.hash_method # None THEN decl.hash_method ELSE "sha256"
        root == ResolveRoot(is_shared, Active)
    IN /\ id \in DOMAIN ledger
       /\ k \in DOMAIN ledger[id]
       /\ files[root][k] # 0
       /\ ledger[id][k].hash = calculate_file_hash(files[root][k], method)
       /\ ledger[id][k].hash_method = method
       /\ ledger[id][k].shared = ToFlag(is_shared)

ExistingFiles(decl) ==
    LET root == ResolveRoot(RecordScope(decl), Active)
    IN IF decl.path \in FilePaths
       THEN {k \in {decl.path} : files[root][k] # 0}
       ELSE IF IsDir(dirs, root, decl.path)
       THEN FilesUnder(files, root, decl.path)
       ELSE {}

Validated == validated.kind = "call"

\* The artifact existed at the call and its fingerprint could be computed.
Computed == validated.content \notin {0, Unreadable}

CurrentOf == calculate_file_hash(validated.content, "sha256")

\* C22: whenever the artifact's current fingerprint equals the reference,
\* validate_artifact passes, under every tier value and any tolerances.
C22_ExactMatchPasses ==
    (Validated /\ Computed /\ CurrentOf = validated.reference_hash)
    => validated.ok

\* C22 witness: an exact match passed under the ignore tier, with no
\* similarity threshold supplied.
C22_Witness ==
    /\ Validated
    /\ Computed
    /\ CurrentOf = validated.reference_hash
    /\ validated.validation_type = "ignore"
    /\ validated.similarity_threshold = NoThreshold
    /\ validated.ok

\* C23: under strict a fingerprint that differs from the reference fails,
\* with the hash-mismatch message, whatever tolerance or similarity
\* threshold is supplied.
C23_StrictFailsOnDifference ==
    (/\ Validated
     /\ Computed
     /\ validated.validation_type = "strict"
     /\ CurrentOf # validated.reference_hash)
    => /\ ~validated.ok
       /\ validated.msg = "strict: hash mismatch"

\* C23 witness: a strict call on a differing artifact failed although an
\* absolute tolerance and a similarity threshold of 0 were supplied.
C23_Witness ==
    /\ Validated
    /\ Computed
    /\ validated.validation_type = "strict"
    /\ CurrentOf # validated.reference_hash
    /\ validated.tolerance_absolute = 10
    /\ validated.similarity_threshold = 0
    /\ ~validated.ok

\* C24 (as stated): under standard with an absolute tolerance of 0.01 a
\* numeric artifact passes exactly when its value is within the tolerance of
\* the value the reference was taken from: 0.005 apart passes, 0.02 fails.
C24_StandardWithinTolerancePasses ==
    (/\ Validated
     /\ Computed
     /\ validated.validation_type = "standard"
     /\ validated.tolerance_absolute = 10)
    => \A r \in 1..MaxValue :
          validated.reference_hash = calculate_file_hash(r, "sha256")
          => (validated.ok <=> compare_numeric_values(ValueOf(validated.content), ValueOf(r),
                                                      validated.tolerance_absolute,
                                                      validated.tolerance_relative))

\* C25: under tolerant, with fingerprints that differ (the reference not
\* empty): given a threshold the call passes exactly when the share of
\* agreeing positions, relative to the reference's length, reaches it; given
\* none it fails.
C25_TolerantBySimilarity ==
    (/\ Validated
     /\ Computed
     /\ validated.validation_type = "tolerant"
     /\ validated.reference_hash # <<>>
     /\ CurrentOf # validated.reference_hash)
    => IF validated.similarity_threshold # NoThreshold
       THEN validated.ok <=>
              (MatchingChars(CurrentOf, validated.reference_hash) * 100
                 >= validated.similarity_threshold * Len(validated.reference_hash))
       ELSE ~validated.ok

\* C25 witness: a tolerant call passed on a fingerprint that agrees with the
\* reference in three positions of four, at a threshold of 75 percent.
C25_Witness ==
    /\ Validated
    /\ Computed
    /\ validated.validation_type = "tolerant"
    /\ validated.similarity_threshold = 75
    /\ Len(validated.reference_hash) = 4
    /\ MatchingChars(CurrentOf, validated.reference_hash) = 3
    /\ validated.ok

\* C26 (as stated): a call with tier ignore passes, whatever the artifact
\* and the reference.
C26_IgnorePasses ==
    (Validated /\ validated.validation_type = "ignore") => validated.ok

\* C27 (as stated): a call with a tier outside strict, standard, tolerant
\* and ignore fails with the unknown-tier failure, whatever the artifact and
\* the reference.
C27_UnknownTierAlwaysFails ==
    (Validated /\ validated.validation_type \notin KnownTiers)
    => /\ ~validated.ok
       /\ validated.msg = "unknown validation type"

\* C27 (amended): such a call returns the unknown-tier failure when the
\* artifact exists and its fingerprint differs from the reference or cannot
\* be computed; it returns the does-not-exist failure for a missing artifact
\* and passes on an exact match.
C27_UnknownTierFailsUnlessMatch ==
    (Validated /\ validated.validation_type \notin KnownTiers)
    => IF validated.content = 0
       THEN ~validated.ok /\ validated.msg = "artifact does not exist"
       ELSE IF Computed /\ CurrentOf = validated.reference_hash
       THEN validated.ok
       ELSE ~validated.ok /\ validated.msg = "unknown validation type"

\* C27 witness: a call with an unknown tier on a differing artifact returned
\* the unknown-tier failure.
C27_Witness ==
    /\ Validated
    /\ Computed
    /\ validated.validation_type \notin KnownTiers
    /\ CurrentOf # validated.reference_hash
    /\ ~validated.ok
    /\ validated.msg = "unknown validation type"

JustVerified(id) ==
    /\ mode = "reproduction"
    /\ pc # "idle"
    /\ id \in executed_stages
    /\ events[id] # <<>>
    /\ events[id][Len(events[id])] = "validate"

\* The status validate_outputs returned, as run_stage leaves it behind: a
\* cached status of "True", or - for false - "False" under "continue" and no
\* cached outcome under "stop".
VerifyStatus(id) == StatusOf(id) = "True"

\* The hashed ledger entries of stage id matched to its j-th declared output.
MatchedEntries(id, j) ==
    ValidateFiles(GetStage(stages, id).outputs[j],
                  [k \in HashedEntries(id) |-> ledger[id][k]], files, dirs, Active)

\* The effective tier of ledger entry k matched to the j-th declared output.
TierOf(id, j, k) ==
    LET st == GetStage(stages, id) IN FinalMode(ledger[id][k], st.outputs[j], st)

\* The file of ledger entry k is missing, or fails validation under the
\* effective tier and threshold.
FailsOrMissing(id, j, k) ==
    LET st == GetStage(stages, id)
        decl == st.outputs[j]
        entry == ledger[id][k]
        root == ResolveRoot(IF entry.shared # None THEN Truthy(entry.shared)
                            ELSE RecordScope(decl), Active)
    IN \/ ~Exists(files, dirs, root, k)
       \/ ~validate_artifact(files, dirs, root, k, entry.hash, TierOf(id, j, k),
                             NoTolerance, NoTolerance, FinalSim(entry, decl, st)).ok

\* C29: the verify status of a stage is false exactly when some ledger entry
\* matched to a declared output, with an effective tier other than "ignore",
\* fails validation or has no file; entries of tier "ignore" never make it
\* false, and with no matched entry at all the status is true.
C29_VerifyStatusByNonIgnoredFiles ==
    \A id \in RegisteredIds(stages) :
       JustVerified(id)
       => (~VerifyStatus(id)
           <=> \E j \in DOMAIN GetStage(stages, id).outputs :
                  \E k \in MatchedEntries(id, j) :
                     TierOf(id, j, k) # "ignore" /\ FailsOrMissing(id, j, k))

\* A verified stage keeps the status true although a matched file of tier
\* "ignore" is missing or differs from its recorded fingerprint.
C29_Witness ==
    \E id \in RegisteredIds(stages) :
       /\ JustVerified(id)
       /\ VerifyStatus(id)
       /\ \E j \in DOMAIN GetStage(stages, id).outputs :
             \E k \in MatchedEntries(id, j) :
                TierOf(id, j, k) = "ignore" /\ FailsOrMissing(id, j, k)

\* A verified stage whose declared output matches no ledger entry although
\* the ledger holds hashed entries: the status is true.
VerifiedWithNothingComparable ==
    \E id \in RegisteredIds(stages) :
       /\ JustVerified(id)
       /\ VerifyStatus(id)
       /\ HashedEntries(id) # {}
       /\ \A j \in DOMAIN GetStage(stages, id).outputs : MatchedEntries(id, j) = {}

\* A verified stage has the status false.
VerifiedFalse ==
    \E id \in RegisteredIds(stages) : JustVerified(id) /\ ~VerifyStatus(id)


\* ============================================= properties: effective settings
\* A setting looked up at the file level, then at the declaration, then at
\* the stage; "absent" is the value that stands for a missing key.
Override(file_level, decl_level, stage_level, absent) ==
    IF file_level # absent THEN file_level
    ELSE IF decl_level # absent THEN decl_level
    ELSE stage_level

\* Validation of the file of ledger entry k of stage id against declaration
\* decl, under the settings resolved in that order; is_shared is the
\* declaration's scope as the calling path sees it.
PassesResolved(id, decl, k, is_shared) ==
    LET st == GetStage(stages, id)
        entry == ledger[id][k]
        root == ResolveRoot(IF entry.shared # None THEN Truthy(entry.shared) ELSE is_shared,
                            Active)
    IN validate_artifact(files, dirs, root, k, entry.hash,
                         Override(entry.mode, decl.mode, st.reproduction_mode, None),
                         NoTolerance, NoTolerance,
                         Override(entry.sim, decl.sim, st.similarity_threshold,
                                  NoThreshold)).ok

\* The skip check of the innermost activation passes with every matched
\* ledger entry validated under the resolved settings.
SkipExpected ==
    LET st == TopStage
        id == Top.stage_id
        expected == [k \in HashedEntries(id) |-> ledger[id][k]]
    IN /\ st.skip_if_unchanged
       /\ ~Top.deps_flag
       /\ st.outputs # <<>>
       /\ HashedEntries(id) # {}
       /\ \A j \in DOMAIN st.outputs :
             LET found == SkipCheckFiles(st.outputs[j], expected, files, dirs, Active)
             IN /\ found.verdict = "ok"
                /\ found.keys # {}
                /\ \A k \in found.keys :
                      PassesResolved(id, st.outputs[j], k, SkipCheckScope(st.outputs[j]))

\* Record rec of the verify path is what the resolved settings give for the
\* j-th declaration of stage id.
RecordResolved(id, j, rec) ==
    LET st == GetStage(stages, id)
        decl == st.outputs[j]
        entry == ledger[id][rec.file]
        tier == Override(entry.mode, decl.mode, st.reproduction_mode, None)
    IN /\ rec.file \in MatchedEntries(id, j)
       /\ rec.mode = tier
       /\ rec.status = IF tier = "ignore" THEN "Ignored"
                       ELSE IF ~Exists(files, dirs, rec.root, rec.file) THEN "Failed"
                       ELSE IF PassesResolved(id, decl, rec.file, RecordScope(decl))
                       THEN "Passed"
                       ELSE "Failed"

SkippedByFileLevelTier ==
    \E id \in RegisteredIds(stages) :
       /\ pc # "idle"
       /\ StatusOf(id) = SKIPPED
       /\ \E k \in HashedEntries(id) :
             /\ ledger[id][k].mode = "tolerant"
             /\ GetStage(stages, id).reproduction_mode = "strict"
             /\ GetStage(stages, id).outputs[1].mode = "strict"
             /\ files[Active][k] # RecordedContent

\* A file verified under the declaration's tier, the entry naming none.
VerifiedByDeclarationTier ==
    \E id \in RegisteredIds(stages) :
       /\ JustVerified(id)
       /\ \E i \in DOMAIN validation_results :
             LET rec == validation_results[i]
                 st == GetStage(stages, id)
             IN /\ ledger[id][rec.file].mode = None
                /\ st.outputs[1].mode \notin {None, st.reproduction_mode}
                /\ rec.mode = st.outputs[1].mode


\* ================================================== properties: scope, keys
\* The skip check is about to be made for the innermost activation.
AtSkipCheck ==
    /\ pc = "call"
    /\ Top.phase = "deps"
    /\ Top.dep_i > Len(TopStage.dependencies)

\* C31 (as stated): for every declared output the skip check
\* (check_outputs_unchanged) looks under the same root as recording and
\* verification (update_output_hashes, validate_outputs) do: the shared root
\* for an explicit shared flag or, without a flag, for a path without a
\* separator, and the mode's root otherwise.
C31_OneScopeInAllOperations ==
    AtSkipCheck
    => \A j \in DOMAIN TopStage.outputs :
          ResolveRoot(SkipCheckScope(TopStage.outputs[j]), Active)
             = ResolveRoot(RecordScope(TopStage.outputs[j]), Active)


\* C32 (as stated): no ledger entry with a fingerprint is ever written under
\* a key that is not relative to the root its scope flag implies - for an
\* output resolved outside that root, relativizing fails and nothing is
\* written.
C32_KeysAreRelativeToRoot ==
    \A id \in RegisteredIds(stages) : \A k \in HashedEntries(id) : ~IsAbsolute(k)

\* The skip check gives up on a declaration resolved outside its root: a
\* stage declaring an absolute path is never skipped.
AbsoluteNeverSkipped ==
    [][SkipTaken => \A j \in DOMAIN TopStage.outputs : ~IsAbsolute(TopStage.outputs[j].path)]_vars


\* ================================================ properties: registration
\* C33: registering a stage under an id already registered in the workflow
\* instance is an error that leaves the registry and the ledger as they
\* were - the stage registered first remains - and no id is ever registered
\* twice.
C33_DuplicateRegistrationRejected ==
    [][/\ regError' => (stages' = stages /\ ledger' = ledger)
       /\ NoRepeats(AllStages(stages'))]_vars

\* A registration was rejected as a duplicate of a stage that has
\* dependencies, which the rejected one has not.
C33_Witness ==
    /\ regError
    /\ \E i \in DOMAIN stages : stages[i].dependencies # <<>>


\* ==================================================== properties: the run
\* The stages a call with this target has to visit hold a cycle or an id
\* that is not registered (the target itself included).
RegionMalformed(stgs, target) ==
    \E id \in Region(stgs, target) : id \notin RegisteredIds(stgs) \/ OnCycle(stgs, id)

\* C34 (as stated): while the registered stage set holds a cycle or a
\* dependency on an unregistered stage, no handler is invoked and the ledger
\* is not written, whatever the target of run().
C34_MalformedGraphNeverExecuted ==
    [][(~Acyclic(stages) \/ ~AllDepsRegistered(stages))
         => /\ \A s \in StageIds : calls'[s] <= calls[s]
            /\ ledger' = ledger]_vars

\* C34 (amended): when the stages run() has to visit - every registered stage
\* without a target, the target's dependency closure with one - hold a cycle
\* or an unregistered id, the resolver's error ends run() at once: no plan is
\* executed, no handler is invoked and the ledger is not written.
C34_MalformedRegionNeverExecuted ==
    [][(Called' /\ RegionMalformed(stages, resolved'.target))
         => /\ resolved'.kind # "ok"
            /\ pc' = "idle"
            /\ \A s \in StageIds : calls'[s] <= calls[s]
            /\ ledger' = ledger]_vars

\* run() was called with a target on a stage set whose stages have outputs,
\* and was ended by the resolver's error.
C34_Witness ==
    /\ runs >= 1
    /\ Called
    /\ resolved.target # NoTarget
    /\ resolved.target \in RegisteredIds(stages)
    /\ RegionMalformed(stages, resolved.target)
    /\ resolved.kind # "ok"
    /\ \E i \in DOMAIN stages : stages[i].outputs # <<>>
    /\ pc = "idle"


\* ============================================ properties: directory digest
\* The files of the hashed directory in the order given by `before`.
InOrder(before(_, _)) ==
    CHOOSE s \in Listings(files, "shared", PathD) :
       \A i, j \in DOMAIN s : i < j => before(s[i], s[j])

\* Relative path strings compared as strings.
StringBefore(p, q) ==
    StrLess(PathString(SubSeq(p, Len(PathD) + 1, Len(p))),
            PathString(SubSeq(q, Len(PathD) + 1, Len(q))))

\* C35 (as stated): the digest of a directory is fed file by file in
\* lexicographic order of the relative path strings, whatever the order in
\* which the file system lists the files.
C35_FedInPathStringOrder ==
    validated.kind = "dir_hash"
    => validated.reference_hash = Fed(files, "shared", PathD, InOrder(StringBefore), 1)

\* C35 (amended): the digest of a directory is fed file by file in the order
\* of the paths compared component by component, whatever the order in which
\* the file system lists the files - so it depends on the relative paths and
\* the file contents only.
C35_FedInPathOrder ==
    validated.kind = "dir_hash"
    => validated.reference_hash = Fed(files, "shared", PathD, InOrder(PathLess), 1)

\* A directory holding both a/b and a-b, which the two orders arrange
\* differently, has been fingerprinted.
C35_Witness ==
    /\ validated.kind = "dir_hash"
    /\ files["shared"][PathDAB] # 0
    /\ files["shared"][PathDAhB] # 0
    /\ files["shared"][PathDX] # 0


\* What may happen to one stage in one run, in order: it is skipped; or its
\* handler raises; or its handler returns and then the outputs are recorded,
\* validated, or there is nothing to do.
PhaseOrders ==
    {<<>>, <<"skip">>, <<"raise">>, <<"call">>, <<"call", "record">>,
     <<"call", "validate">>, <<"call", "done">>}

\* C36 (as stated): within a run every stage passes through its phases in
\* the fixed order and only once - dependencies, skip decision, then skipped
\* or executed, then recording or validation, then the cached outcome; the
\* handler runs only after every dependency was processed, and an outcome is
\* cached only after the skip or after recording / validation.
C36_PhasesInOrderOnce ==
    \A s \in RegisteredIds(stages) :
       /\ events[s] \in PhaseOrders
       /\ events[s] # <<>>
            => \A dep \in DepsOf(stages, s) : dep \in RegisteredIds(stages) => events[dep] # <<>>
       /\ s \in DOMAIN run_cache
            => /\ Len(events[s]) >= 1
               /\ events[s][Len(events[s])] \in {"skip", "record", "validate", "done"}


\* An exception leaves the innermost activation of run_stage in this step and
\* unwinds every activation below it: the handler raised, or verification
\* failed under "stop".
RaiseStep ==
    /\ pc = "call"
    /\ stack' = <<>>
    /\ Top.stage_id \notin DOMAIN run_cache'

C38_RunStateScopedToRun ==
    [][/\ runs' = runs + 1
            => /\ executed_stages' = {}
               /\ stage_validation_status' = EmptyMap
               /\ run_cache' = EmptyCache
               /\ validation_results' = <<>>
       /\ \A s \in DOMAIN run_cache' : events'[s] # <<>>
       /\ \A s \in executed_stages' : events'[s] # <<>>]_vars

\* In a second run the stage, executed and recorded in the first run, was
\* evaluated again and skipped.
C38_Witness ==
    /\ runs = 2
    /\ \E s \in RegisteredIds(stages) :
          /\ StatusOf(s) = SKIPPED
          /\ events[s] = <<"skip">>


\* C39: during a run, run_cache and stage_status have the same keys, all of
\* them in executed_stages; the cached status of a stage is its stage_status
\* value; a status is true, false, null or SKIPPED; true and false occur in
\* verify mode only; and under "stop" no cached status is false.
C39_CacheAndStatusAgree ==
    pc # "idle"
    => /\ DOMAIN run_cache = DOMAIN stage_validation_status
       /\ DOMAIN run_cache \subseteq executed_stages
       /\ \A s \in DOMAIN run_cache :
             /\ run_cache[s].status = stage_validation_status[s]
             /\ run_cache[s].status \in {"True", "False", None, SKIPPED}
             /\ run_cache[s].status \in {"True", "False"} => mode = "reproduction"
             /\ policy = "stop" => run_cache[s].status # "False"

\* Between two run_stage calls of a verify run under "continue" the cache
\* holds a skipped stage and a stage that failed verification.
C39_Witness ==
    /\ pc = "loop"
    /\ mode = "reproduction"
    /\ \E s, t \in DOMAIN run_cache :
          /\ run_cache[s].status = SKIPPED
          /\ run_cache[t].status = "False"
          /\ stage_validation_status[t] = "False"


\* The stage was attempted in this run: its outcome is cached, or its own
\* handler or the handler of one of its dependencies raised.
Attempted(s) ==
    \/ s \in DOMAIN run_cache
    \/ \E d \in ClosureOf(stages, {s}) : "raise" \in Range(events[d])

\* C40: a run() that found a plan - the stages it has to run are acyclic
\* and their dependencies registered - terminates under either failure
\* policy, handlers terminating; under "continue" it ends with every stage of
\* the plan attempted.
C40_RunTerminates ==
    /\ (pc # "idle") ~> (pc = "idle")
    /\ \A s \in StageIds :
          (pc = "loop" /\ policy = "continue" /\ s \in Range(plan))
             ~> (pc = "finish" /\ policy = "continue" /\ s \in Range(plan) /\ Attempted(s))

\* A run under "continue" ended after a handler raised: a later stage of the
\* plan has its outcome cached, and a stage that depends on the raising one
\* was attempted and has none.
C40_Witness ==
    /\ pc = "finish"
    /\ policy = "continue"
    /\ \E a, b, c \in Range(plan) :
          /\ "raise" \in Range(events[a])
          /\ a \in DepsOf(stages, b)
          /\ b \notin DOMAIN run_cache
          /\ c \in DOMAIN run_cache

====
